---------------------------- MODULE Spec2Model ----------------------------
(***************************************************************************)
(* State-machine model of the sample aggregation coordinator of the SAJ    *)
(* Sununo-TL monitor (custom_components/saj_sununo_monitor/coordinator.py).*)
(*                                                                         *)
(* The coordinator runs on one asyncio event loop.  A callback runs        *)
(* without interruption until it awaits the network fetch; the model       *)
(* therefore has one running callback at a time (cur) beside the fetches   *)
(* that are in flight.  Every statement group of a callback is one step,   *)
(* so the lock, the shared buffer and the notifications can be observed    *)
(* between the statements of the running callback.                         *)
(*                                                                         *)
(* Numbers are exact rationals n/d in scaled units (tenths): the rounding  *)
(* of IEEE doubles is not modelled.                                        *)
(***************************************************************************)
EXTENDS Integers, Sequences, FiniteSets, TLC

(***************************************************************************)
(* Bounds of the model.                                                    *)
(***************************************************************************)
\* samples recorded between two buffer clears
MaxBuf == 2
\* fetches (polls and refreshes) awaiting the device at the same time
MaxInFlight == 2

(***************************************************************************)
(* Values: Python floats, strings and None, as records of one shape.       *)
(***************************************************************************)
Num(n, d) == [t |-> "num", n |-> n, d |-> d, s |-> ""]
Str(x) == [t |-> "str", n |-> 0, d |-> 1, s |-> x]
PyNone == [t |-> "none", n |-> 0, d |-> 1, s |-> ""]
Float(n) == Num(n, 1)

\* Optional values (x | None) are sequences of length 0 or 1.
None == <<>>
Some(x) == <<x>>

\* dict helpers
EmptyDict == [k \in {} |-> PyNone]
DictGet(d, k) == IF k \in DOMAIN d THEN d[k] ELSE PyNone
DictSet(d, k, v) == [x \in (DOMAIN d) \cup {k} |-> IF x = k THEN v ELSE d[x]]
DictDel(d, ks) == [x \in (DOMAIN d) \ ks |-> d[x]]

RECURSIVE GCD(_, _)
GCD(a, b) == IF b = 0 THEN a ELSE GCD(b, a % b)

RECURSIVE SumSeq(_)
SumSeq(q) == IF q = <<>> THEN 0 ELSE Head(q) + SumSeq(Tail(q))

\* sum(values) / len(values), as a reduced fraction
MeanOf(values) ==
    LET s == SumSeq(values)
        n == Len(values)
        g == GCD(IF s < 0 THEN -s ELSE s, n)
    IN  Num(s \div g, n \div g)

(***************************************************************************)
(* Field tables.                                                           *)
(***************************************************************************)
XML_FIELDS ==
    {"state", "v-grid", "i-grid", "f-grid", "p-ac", "temp", "e-today",
     "t-today", "e-total", "CO2", "t-total", "v-pv1", "i-pv1", "v-pv2",
     "i-pv2", "v-pv3", "i-pv3", "v-pv4", "i-pv4", "v-bus"}

AVERAGE_KEYS ==
    {"v-grid", "i-grid", "f-grid", "p-ac", "temp", "v-pv1", "i-pv1",
     "v-pv2", "i-pv2", "v-pv3", "i-pv3", "v-pv4", "i-pv4"}

(***************************************************************************)
(* The parsed samples the device can answer with (tenths of the unit).     *)
(* SampleA/SampleB are the two polls of test_polling_with_one_poll_failure *)
(* as the parser returns them (a missing element is an absent key);        *)
(* SampleC is a reading taken while the inverter waits: no first string,   *)
(* a third string present.                                                 *)
(***************************************************************************)
BaseSample ==
    [k \in XML_FIELDS \ {"v-pv3", "i-pv3", "v-pv4", "i-pv4"} |->
        CASE k = "state" -> Str("Normal")
          [] k = "v-grid" -> Float(2300)
          [] k = "i-grid" -> Float(50)
          [] k = "f-grid" -> Float(500)
          [] k = "p-ac" -> Float(10000)
          [] k = "temp" -> Float(340)
          [] k = "e-today" -> Float(100)
          [] k = "t-today" -> Float(2400)
          [] k = "e-total" -> Float(12000)
          [] k = "CO2" -> Float(440)
          [] k = "t-total" -> Float(36000)
          [] k = "v-pv1" -> Float(1500)
          [] k = "i-pv1" -> Float(80)
          [] k = "v-pv2" -> Float(1550)
          [] k = "i-pv2" -> Float(78)
          [] OTHER -> Float(4000)]

SampleA == BaseSample

SampleB ==
    DictSet(DictSet(DictSet(BaseSample, "v-pv1", Float(1490)),
                    "i-pv1", Float(83)), "e-today", Float(101))

SampleC ==
    DictSet(DictSet(DictSet(DictDel(BaseSample, {"v-pv1", "i-pv1"}),
                            "v-pv3", Float(2000)),
                    "state", Str("Wait")), "e-today", Float(102))

Samples == {SampleA, SampleB, SampleC}

\* What one HTTP exchange with the device can end in.
Responses ==
    {[kind |-> "timeout", data |-> EmptyDict],
     [kind |-> "http_error", data |-> EmptyDict],
     [kind |-> "xml_bad", data |-> EmptyDict]}
    \cup {[kind |-> "ok", data |-> s] : s \in Samples}

(***************************************************************************)
(* The coordinator's pure parts.  The shared state is passed as a record   *)
(* st = [buffer, last, has]: _buffer, _interval_last_sample and            *)
(* _interval_has_sample.                                                   *)
(***************************************************************************)
\* Strings float() accepts, with their value; any other string raises
\* ValueError.
NumericText == [x \in {"149.0"} |-> 1490]

\* float(value): Some(number), or None for TypeError/ValueError.
FloatConv(v) ==
    CASE v.t = "num" -> Some(v.n)
      [] v.t = "str" -> IF v.s \in DOMAIN NumericText
                        THEN Some(NumericText[v.s]) ELSE None
      [] OTHER -> None

\* _add_sample buffers the sample and leaves the has-sample flag alone.
add_sample_unflagged(st, d) ==
    [buffer |-> [k \in AVERAGE_KEYS |->
                    IF DictGet(d, k).t = "none" \/ FloatConv(DictGet(d, k)) = None
                    THEN st.buffer[k]
                    ELSE Append(st.buffer[k], FloatConv(DictGet(d, k))[1])],
     last |-> Some(d),
     has |-> st.has]

\* _add_sample keeps the first sample of the interval as last sample.
add_sample_keep_first(st, d) ==
    [buffer |-> [k \in AVERAGE_KEYS |->
                    IF DictGet(d, k).t = "none" \/ FloatConv(DictGet(d, k)) = None
                    THEN st.buffer[k]
                    ELSE Append(st.buffer[k], FloatConv(DictGet(d, k))[1])],
     last |-> IF st.last = None THEN Some(d) ELSE st.last,
     has |-> TRUE]

\* _add_sample counts a sample only when it buffered a value of it.
add_sample_if_buffered(st, d) ==
    LET appended == {k \in AVERAGE_KEYS :
                        DictGet(d, k).t # "none"
                            /\ FloatConv(DictGet(d, k)) # None}
    IN  [buffer |-> [k \in AVERAGE_KEYS |->
                        IF k \in appended
                        THEN Append(st.buffer[k], FloatConv(DictGet(d, k))[1])
                        ELSE st.buffer[k]],
         last |-> IF appended = {} THEN st.last ELSE Some(d),
         has |-> IF appended = {} THEN st.has ELSE TRUE]

\* _add_sample appends every value twice.
add_sample_doubled(st, d) ==
    [buffer |-> [k \in AVERAGE_KEYS |->
                    IF DictGet(d, k).t = "none" \/ FloatConv(DictGet(d, k)) = None
                    THEN st.buffer[k]
                    ELSE st.buffer[k] \o <<FloatConv(DictGet(d, k))[1],
                                           FloatConv(DictGet(d, k))[1]>>],
     last |-> Some(d),
     has |-> TRUE]

add_sample(st, d) ==
    [buffer |-> [k \in AVERAGE_KEYS |->
                    IF DictGet(d, k).t = "none" \/ FloatConv(DictGet(d, k)) = None
                    THEN st.buffer[k]
                    ELSE Append(st.buffer[k], FloatConv(DictGet(d, k))[1])],
     last |-> Some(d),
     has |-> TRUE]

\* _clear_buffer leaves the has-sample flag set.
clear_buffer_keep_flag(st) ==
    [buffer |-> [k \in AVERAGE_KEYS |-> <<>>], last |-> None, has |-> st.has]

\* _clear_buffer leaves the last-sample cache in place.
clear_buffer_keep_last(st) ==
    [buffer |-> [k \in AVERAGE_KEYS |-> <<>>], last |-> st.last, has |-> FALSE]

\* _clear_buffer empties the lists and nothing more.
clear_buffer_lists_only(st) ==
    [buffer |-> [k \in AVERAGE_KEYS |-> <<>>], last |-> st.last, has |-> st.has]

\* _clear_buffer forgets the last sample and the flag but keeps the lists.
clear_buffer_keep_lists(st) ==
    [buffer |-> st.buffer, last |-> None, has |-> FALSE]

clear_buffer(st) ==
    [buffer |-> [k \in AVERAGE_KEYS |-> <<>>], last |-> None, has |-> FALSE]

\* _build_mean_data returns the last raw sample, no mean taken.
build_mean_data_raw(st) ==
    IF st.last = None THEN EmptyDict ELSE st.last[1]

\* _build_mean_data publishes the newest buffered value instead of the mean.
build_mean_data_newest(st) ==
    IF st.last = None
    THEN EmptyDict
    ELSE LET filled == {k \in AVERAGE_KEYS : st.buffer[k] # <<>>}
         IN  [k \in (DOMAIN st.last[1]) \cup filled |->
                IF k \in filled
                THEN Float(st.buffer[k][Len(st.buffer[k])])
                ELSE st.last[1][k]]

\* _build_mean_data keeps to the keys of the last raw sample.
build_mean_data_template(st) ==
    IF st.last = None
    THEN EmptyDict
    ELSE [k \in DOMAIN st.last[1] |->
            IF k \in AVERAGE_KEYS /\ st.buffer[k] # <<>>
            THEN MeanOf(st.buffer[k]) ELSE st.last[1][k]]

build_mean_data(st) ==
    IF st.last = None
    THEN EmptyDict
    ELSE LET filled == {k \in AVERAGE_KEYS : st.buffer[k] # <<>>}
         IN  [k \in (DOMAIN st.last[1]) \cup filled |->
                IF k \in filled THEN MeanOf(st.buffer[k]) ELSE st.last[1][k]]

\* _async_fetch_sample lets a parse failure through as it was raised.
async_fetch_sample_leaky(resp) ==
    CASE resp.kind = "ok" -> [exc |-> "none", data |-> resp.data]
      [] resp.kind = "xml_bad" -> [exc |-> "ParseError", data |-> EmptyDict]
      [] OTHER -> [exc |-> "UpdateFailed", data |-> EmptyDict]

\* _async_fetch_sample: the parsed sample, or UpdateFailed for a timeout
\* and for every other exception (HTTP status, transport, XML parse).
async_fetch_sample(resp) ==
    CASE resp.kind = "ok" -> [exc |-> "none", data |-> resp.data]
      [] resp.kind = "timeout" -> [exc |-> "UpdateFailed", data |-> EmptyDict]
      [] OTHER -> [exc |-> "UpdateFailed", data |-> EmptyDict]

(***************************************************************************)
(* State.                                                                  *)
(***************************************************************************)
VARIABLES
    buffer,                 \* _buffer: averaged key -> list of floats
    interval_last_sample,   \* _interval_last_sample: None or Some(sample)
    interval_has_sample,    \* _interval_has_sample
    lock,                   \* _lock: "free", or the callback that holds it
    data,                   \* the Published Snapshot: None or Some(dict)
    last_update_success,    \* the coordinator's last_update_success
    polls_in_flight,        \* polls awaiting _async_fetch_sample
    refreshes_in_flight,    \* refreshes awaiting _async_fetch_sample
    cur,                    \* the callback that is running now
    obs,                    \* what the last step did
    done,                   \* Some(callback) when the last step ended one
    log,                    \* history: the samples recorded since the last clear
    run,                    \* history: Aggregator ticks in a row that found no sample
    unsub_scan,             \* _unsub_scan: None or Some(registration)
    unsub_storage,          \* _unsub_storage: None or Some(registration)
    timers,                 \* the host's live interval registrations
    entry,                  \* the config entry as the host sees it
    missing_pv_sensors,     \* _missing_pv_sensors
    parsed,                 \* what the last _parse_xml_data call did
    sensor,                 \* one SajSununoSensor: its key and its fields
    today,                  \* datetime.datetime.now().date()
    native,                 \* what the last read of native_value returned
    flow,                   \* the ConfigFlow handler: _areas and its last result
    config_entry            \* the host's config entry: None or Some(data)

vars ==
    <<buffer, interval_last_sample, interval_has_sample, lock, data,
      last_update_success, polls_in_flight, refreshes_in_flight, cur, obs,
      done, log, run, unsub_scan, unsub_storage, timers, entry,
      missing_pv_sensors, parsed, sensor, today, native, flow,
      config_entry>>

\* The coordinator's part of the state, without its registrations and its
\* parser's memory.
coreVars ==
    <<buffer, interval_last_sample, interval_has_sample, lock, data,
      last_update_success, polls_in_flight, refreshes_in_flight, cur, obs,
      done, log, run>>

lifeVars == <<unsub_scan, unsub_storage, timers, entry>>
parserVars == <<missing_pv_sensors, parsed>>
sensorVars == <<sensor, today, native>>
flowVars == <<flow, config_entry>>

\* The poll, refresh and publish callbacks touch none of these.
RestUnchanged == UNCHANGED <<lifeVars, parserVars, sensorVars, flowVars>>

Shared ==
    [buffer |-> buffer, last |-> interval_last_sample,
     has |-> interval_has_sample]

\* The part of the state the frame claims speak about.
Visible == [st |-> Shared, data |-> data]

Idle ==
    [kind |-> "none", pc |-> "idle", data |-> None, mean |-> None,
     pre |-> None, log0 |-> <<>>, errs |-> 0, pubs |-> 0, msg |-> "",
     raised |-> FALSE, ok0 |-> TRUE]

\* A callback (re)starts running: it remembers the state it found.
Begin(kind, pc, d) ==
    [Idle EXCEPT !.kind = kind, !.pc = pc, !.data = d,
                 !.pre = Some(Visible), !.log0 = log,
                 !.ok0 = last_update_success]

Quiet(ev) ==
    [ev |-> ev, notify |-> "none", access |-> FALSE, calls |-> <<>>]
Touch(ev) ==
    [ev |-> ev, notify |-> "none", access |-> TRUE, calls |-> <<>>]
Notify(ev, what, acc) ==
    [ev |-> ev, notify |-> what, access |-> acc, calls |-> <<>>]
\* a step that called the host's registration or cancel functions
Calls(ev, cs) == [Quiet(ev) EXCEPT !.calls = cs]

NoRun == [n |-> 0, errs |-> 0, pubs |-> 0, base |-> None]

\* The Aggregator tick c, which began with no sample recorded, has ended.
RunAfter(c) ==
    IF c.log0 # <<>> THEN NoRun
    ELSE IF run.n >= 2 THEN run
    ELSE [n |-> run.n + 1, errs |-> run.errs + c.errs,
          pubs |-> run.pubs + c.pubs,
          base |-> IF run.n = 0 THEN c.pre ELSE run.base]

InFlight == polls_in_flight + refreshes_in_flight

SetShared(st) ==
    /\ buffer' = st.buffer
    /\ interval_last_sample' = st.last
    /\ interval_has_sample' = st.has

SharedUnchanged ==
    UNCHANGED <<buffer, interval_last_sample, interval_has_sample>>

\* No interval registration is live.
NoTimers == [scan |-> 0, storage |-> 0]

\* A config entry no handler has been called for.
NotLoaded ==
    [state |-> "not_loaded", error |-> "", returned |-> "none",
     scan_interval |-> 0]

\* _parse_xml_data has not been called.
NotParsed ==
    [xml |-> None, exc |-> "none", result |-> EmptyDict, missing |-> {},
     failed |-> {}]

\* ConfigFlow.__init__: no areas read yet; no step has answered.  input,
\* validate and fetch say what the last step was given and what the network
\* answered to each of its two requests.
NewFlow ==
    [areas |-> None, input |-> None, validate |-> "not_called",
     fetch |-> "not_called", result |-> [type |-> "none"]]

\* A sensor entity as its constructor leaves it.
NewSensor(key) ==
    [key |-> key, last_value |-> None, last_reset_date |-> None]

\* The coordinator as its constructor leaves it.
CoordinatorInit ==
    /\ buffer = [k \in AVERAGE_KEYS |-> <<>>]
    /\ interval_last_sample = None
    /\ interval_has_sample = FALSE
    /\ lock = "free"
    /\ data = None
    /\ last_update_success = TRUE
    /\ polls_in_flight = 0
    /\ refreshes_in_flight = 0
    /\ cur = Idle
    /\ obs = Quiet("init")
    /\ done = None
    /\ log = <<>>
    /\ run = NoRun
    /\ unsub_scan = None
    /\ unsub_storage = None
    /\ missing_pv_sensors = {}

\* Nothing outside the coordinator is in play.
LifeIdle == timers = NoTimers /\ entry = NotLoaded
ParserIdle == parsed = NotParsed
SensorIdle == sensor = NewSensor("state") /\ today = 0 /\ native = None
FlowIdle == flow = NewFlow /\ config_entry = None

Init ==
    /\ CoordinatorInit
    /\ LifeIdle
    /\ ParserIdle
    /\ SensorIdle
    /\ FlowIdle

(***************************************************************************)
(* _async_poll_device                                                      *)
(***************************************************************************)
\* The scan timer fires: the callback starts and awaits the fetch, having
\* taken the lock first.
PollTickLocked ==
    /\ cur.kind = "none"
    /\ lock = "free"
    /\ InFlight < MaxInFlight
    /\ polls_in_flight' = polls_in_flight + 1
    /\ lock' = "poll"
    /\ obs' = Quiet("poll_fetch")
    /\ done' = None
    /\ SharedUnchanged
    /\ UNCHANGED <<data, last_update_success, refreshes_in_flight, cur,
                   log, run>>
    /\ RestUnchanged

\* The scan timer fires: the callback starts and awaits the fetch.
PollTick ==
    /\ cur.kind = "none"
    /\ InFlight < MaxInFlight
    /\ polls_in_flight' = polls_in_flight + 1
    /\ obs' = Quiet("poll_fetch")
    /\ done' = None
    /\ SharedUnchanged
    /\ UNCHANGED <<lock, data, last_update_success, refreshes_in_flight,
                   cur, log, run>>
    /\ RestUnchanged

\* The fetch of a poll fails: UpdateFailed is caught and the callback
\* returns; any other exception would leave the callback.
PollFetchFailed ==
    /\ cur.kind = "none"
    /\ polls_in_flight > 0
    /\ \E resp \in Responses :
         LET r == async_fetch_sample(resp)
         IN  /\ r.exc # "none"
             /\ done' = Some([Begin("poll", "returned", None) EXCEPT
                                !.raised = (r.exc # "UpdateFailed"),
                                !.msg = resp.kind])
    /\ polls_in_flight' = polls_in_flight - 1
    /\ obs' = Quiet("poll_failed")
    /\ SharedUnchanged
    /\ UNCHANGED <<lock, data, last_update_success, refreshes_in_flight,
                   cur, log, run>>
    /\ RestUnchanged

\* The fetch of a poll returns a sample: the callback goes on to the lock.
PollFetchOk ==
    /\ cur.kind = "none"
    /\ polls_in_flight > 0
    /\ Len(log) < MaxBuf
    /\ \E resp \in Responses :
         LET r == async_fetch_sample(resp)
         IN  /\ r.exc = "none"
             /\ cur' = Begin("poll", "acquire", Some(r.data))
    /\ polls_in_flight' = polls_in_flight - 1
    /\ obs' = Quiet("poll_fetched")
    /\ done' = None
    /\ SharedUnchanged
    /\ UNCHANGED <<lock, data, last_update_success, refreshes_in_flight,
                   log, run>>
    /\ RestUnchanged

\* The poll goes on without taking the lock.
PollAcquireNoLock ==
    /\ cur.kind = "poll" /\ cur.pc = "acquire"
    /\ cur' = [cur EXCEPT !.pc = "locked"]
    /\ obs' = Quiet("poll_acquire")
    /\ done' = None
    /\ SharedUnchanged
    /\ UNCHANGED <<lock, data, last_update_success, polls_in_flight,
                   refreshes_in_flight, log, run>>
    /\ RestUnchanged

\* async with self._lock
PollAcquire ==
    /\ cur.kind = "poll" /\ cur.pc = "acquire"
    /\ lock = "free"
    /\ lock' = "poll"
    /\ cur' = [cur EXCEPT !.pc = "locked"]
    /\ obs' = Quiet("poll_acquire")
    /\ done' = None
    /\ SharedUnchanged
    /\ UNCHANGED <<data, last_update_success, polls_in_flight,
                   refreshes_in_flight, log, run>>
    /\ RestUnchanged

\* self._add_sample(data)
PollAdd ==
    /\ cur.kind = "poll" /\ cur.pc = "locked"
    /\ SetShared(add_sample(Shared, cur.data[1]))
    /\ log' = Append(log, [src |-> "poll", sample |-> cur.data[1]])
    /\ run' = NoRun
    /\ cur' = [cur EXCEPT !.pc = "release"]
    /\ obs' = Touch("poll_add")
    /\ done' = None
    /\ UNCHANGED <<lock, data, last_update_success, polls_in_flight,
                   refreshes_in_flight>>
    /\ RestUnchanged

\* the end of the with block: the lock is released, the callback returns
PollRelease ==
    /\ cur.kind = "poll" /\ cur.pc = "release"
    /\ lock' = "free"
    /\ cur' = Idle
    /\ obs' = Quiet("poll_release")
    /\ done' = Some([cur EXCEPT !.pc = "returned"])
    /\ SharedUnchanged
    /\ UNCHANGED <<data, last_update_success, polls_in_flight,
                   refreshes_in_flight, log, run>>
    /\ RestUnchanged

(***************************************************************************)
(* _async_update_data, run by the base class's refresh (the first refresh  *)
(* of setup and every later refresh request).  The base class stores the   *)
(* value it returns as the coordinator's data; an UpdateFailed it raises   *)
(* leaves data alone and clears last_update_success.                       *)
(***************************************************************************)
RefreshStart ==
    /\ cur.kind = "none"
    /\ InFlight < MaxInFlight
    /\ refreshes_in_flight' = refreshes_in_flight + 1
    /\ obs' = Quiet("refresh_fetch")
    /\ done' = None
    /\ SharedUnchanged
    /\ UNCHANGED <<lock, data, last_update_success, polls_in_flight, cur,
                   log, run>>
    /\ RestUnchanged

\* The fetch fails and _async_update_data swallows the failure: it returns
\* what the buffer holds.
RefreshFetchFailedSwallowed ==
    /\ cur.kind = "none"
    /\ refreshes_in_flight > 0
    /\ \E resp \in Responses :
         /\ async_fetch_sample(resp).exc # "none"
         /\ done' = Some([Begin("refresh", "returned", None) EXCEPT
                            !.pubs = 1, !.msg = resp.kind])
    /\ refreshes_in_flight' = refreshes_in_flight - 1
    /\ data' = Some(build_mean_data(Shared))
    /\ last_update_success' = TRUE
    /\ obs' = Quiet("refresh_failed")
    /\ SharedUnchanged
    /\ UNCHANGED <<lock, polls_in_flight, cur, log, run>>
    /\ RestUnchanged

\* The fetch fails: the exception leaves _async_update_data.
RefreshFetchFailed ==
    /\ cur.kind = "none"
    /\ refreshes_in_flight > 0
    /\ \E resp \in Responses :
         /\ async_fetch_sample(resp).exc # "none"
         /\ done' = Some([Begin("refresh", "returned", None) EXCEPT
                            !.raised = TRUE, !.msg = resp.kind])
    /\ refreshes_in_flight' = refreshes_in_flight - 1
    /\ last_update_success' = FALSE
    /\ obs' = Quiet("refresh_failed")
    /\ SharedUnchanged
    /\ UNCHANGED <<lock, data, polls_in_flight, cur, log, run>>
    /\ RestUnchanged

RefreshFetchOk ==
    /\ cur.kind = "none"
    /\ refreshes_in_flight > 0
    /\ Len(log) < MaxBuf
    /\ \E resp \in Responses :
         LET r == async_fetch_sample(resp)
         IN  /\ r.exc = "none"
             /\ cur' = Begin("refresh", "acquire", Some(r.data))
    /\ refreshes_in_flight' = refreshes_in_flight - 1
    /\ obs' = Quiet("refresh_fetched")
    /\ done' = None
    /\ SharedUnchanged
    /\ UNCHANGED <<lock, data, last_update_success, polls_in_flight, log,
                   run>>
    /\ RestUnchanged

\* async with self._lock
RefreshAcquire ==
    /\ cur.kind = "refresh" /\ cur.pc = "acquire"
    /\ lock = "free"
    /\ lock' = "refresh"
    /\ cur' = [cur EXCEPT !.pc = "locked"]
    /\ obs' = Quiet("refresh_acquire")
    /\ done' = None
    /\ SharedUnchanged
    /\ UNCHANGED <<data, last_update_success, polls_in_flight,
                   refreshes_in_flight, log, run>>
    /\ RestUnchanged

\* The refresh goes past the buffer: nothing is recorded.
RefreshAddBypass ==
    /\ cur.kind = "refresh" /\ cur.pc = "locked"
    /\ cur' = [cur EXCEPT !.pc = "build"]
    /\ obs' = Touch("refresh_add")
    /\ done' = None
    /\ SharedUnchanged
    /\ UNCHANGED <<lock, data, last_update_success, polls_in_flight,
                   refreshes_in_flight, log, run>>
    /\ RestUnchanged

\* self._add_sample(data)
RefreshAdd ==
    /\ cur.kind = "refresh" /\ cur.pc = "locked"
    /\ SetShared(add_sample(Shared, cur.data[1]))
    /\ log' = Append(log, [src |-> "refresh", sample |-> cur.data[1]])
    /\ run' = NoRun
    /\ cur' = [cur EXCEPT !.pc = "build"]
    /\ obs' = Touch("refresh_add")
    /\ done' = None
    /\ UNCHANGED <<lock, data, last_update_success, polls_in_flight,
                   refreshes_in_flight>>
    /\ RestUnchanged

\* return self._build_mean_data(): the value is computed under the lock
RefreshBuild ==
    /\ cur.kind = "refresh" /\ cur.pc = "build"
    /\ cur' = [cur EXCEPT !.pc = "release",
                          !.mean = Some(build_mean_data(Shared))]
    /\ obs' = Touch("refresh_build")
    /\ done' = None
    /\ SharedUnchanged
    /\ UNCHANGED <<lock, data, last_update_success, polls_in_flight,
                   refreshes_in_flight, log, run>>
    /\ RestUnchanged

\* the with block is left
RefreshRelease ==
    /\ cur.kind = "refresh" /\ cur.pc = "release"
    /\ lock' = "free"
    /\ cur' = [cur EXCEPT !.pc = "store"]
    /\ obs' = Quiet("refresh_release")
    /\ done' = None
    /\ SharedUnchanged
    /\ UNCHANGED <<data, last_update_success, polls_in_flight,
                   refreshes_in_flight, log, run>>
    /\ RestUnchanged

\* the base class stores the returned value and tells the listeners
RefreshStore ==
    /\ cur.kind = "refresh" /\ cur.pc = "store"
    /\ data' = cur.mean
    /\ last_update_success' = TRUE
    /\ cur' = Idle
    /\ obs' = Notify("refresh_store", "refreshed", FALSE)
    /\ done' = Some([cur EXCEPT !.pc = "returned", !.pubs = 1])
    /\ SharedUnchanged
    /\ UNCHANGED <<lock, polls_in_flight, refreshes_in_flight, log, run>>
    /\ RestUnchanged

(***************************************************************************)
(* _async_publish_means                                                    *)
(***************************************************************************)
\* The storage timer fires; the callback awaits nothing but the lock.
PublishTick ==
    /\ cur.kind = "none"
    /\ cur' = Begin("publish", "acquire", None)
    /\ obs' = Quiet("publish_tick")
    /\ done' = None
    /\ SharedUnchanged
    /\ UNCHANGED <<lock, data, last_update_success, polls_in_flight,
                   refreshes_in_flight, log, run>>
    /\ RestUnchanged

\* The Aggregator goes on without taking the lock.
PublishAcquireNoLock ==
    /\ cur.kind = "publish" /\ cur.pc = "acquire"
    /\ cur' = [cur EXCEPT !.pc = "locked"]
    /\ obs' = Quiet("publish_acquire")
    /\ done' = None
    /\ SharedUnchanged
    /\ UNCHANGED <<lock, data, last_update_success, polls_in_flight,
                   refreshes_in_flight, log, run>>
    /\ RestUnchanged

\* async with self._lock
PublishAcquire ==
    /\ cur.kind = "publish" /\ cur.pc = "acquire"
    /\ lock = "free"
    /\ lock' = "publish"
    /\ cur' = [cur EXCEPT !.pc = "locked"]
    /\ obs' = Quiet("publish_acquire")
    /\ done' = None
    /\ SharedUnchanged
    /\ UNCHANGED <<data, last_update_success, polls_in_flight,
                   refreshes_in_flight, log, run>>
    /\ RestUnchanged

\* The no-sample branch publishes what _build_mean_data returns.
PublishNoSamplePublishes ==
    /\ cur.kind = "publish" /\ cur.pc = "locked"
    /\ ~interval_has_sample
    /\ cur' = [cur EXCEPT !.pc = "clear",
                          !.mean = Some(build_mean_data(Shared))]
    /\ obs' = Touch("publish_build")
    /\ done' = None
    /\ SharedUnchanged
    /\ UNCHANGED <<lock, data, last_update_success, polls_in_flight,
                   refreshes_in_flight, log, run>>
    /\ RestUnchanged

\* The no-sample branch withdraws the snapshot along with the failure.
PublishNoSampleForgets ==
    /\ cur.kind = "publish" /\ cur.pc = "locked"
    /\ ~interval_has_sample
    /\ last_update_success' = FALSE
    /\ data' = None
    /\ cur' = [cur EXCEPT !.pc = "return", !.errs = @ + 1,
                          !.msg = "No samples collected"]
    /\ obs' = Notify("publish_no_sample", "update_error", TRUE)
    /\ done' = None
    /\ SharedUnchanged
    /\ UNCHANGED <<lock, polls_in_flight, refreshes_in_flight, log, run>>
    /\ RestUnchanged

\* if not self._interval_has_sample:
\*     self.async_set_update_error(UpdateFailed("No samples collected"))
\*     return
\* The base class records the failure and tells the listeners; data stays.
PublishNoSample ==
    /\ cur.kind = "publish" /\ cur.pc = "locked"
    /\ ~interval_has_sample
    /\ last_update_success' = FALSE
    /\ cur' = [cur EXCEPT !.pc = "return", !.errs = @ + 1,
                          !.msg = "No samples collected"]
    /\ obs' = Notify("publish_no_sample", "update_error", TRUE)
    /\ done' = None
    /\ SharedUnchanged
    /\ UNCHANGED <<lock, data, polls_in_flight, refreshes_in_flight, log,
                   run>>
    /\ RestUnchanged

\* mean_data = self._build_mean_data()
PublishBuild ==
    /\ cur.kind = "publish" /\ cur.pc = "locked"
    /\ interval_has_sample
    /\ cur' = [cur EXCEPT !.pc = "clear",
                          !.mean = Some(build_mean_data(Shared))]
    /\ obs' = Touch("publish_build")
    /\ done' = None
    /\ SharedUnchanged
    /\ UNCHANGED <<lock, data, last_update_success, polls_in_flight,
                   refreshes_in_flight, log, run>>
    /\ RestUnchanged

\* self._clear_buffer()
PublishClear ==
    /\ cur.kind = "publish" /\ cur.pc = "clear"
    /\ SetShared(clear_buffer(Shared))
    /\ log' = <<>>
    /\ cur' = [cur EXCEPT !.pc = "release"]
    /\ obs' = Touch("publish_clear")
    /\ done' = None
    /\ UNCHANGED <<lock, data, last_update_success, polls_in_flight,
                   refreshes_in_flight, run>>
    /\ RestUnchanged

\* the return of the no-sample branch returns without leaving the with
\* block
PublishReturnHolding ==
    /\ cur.kind = "publish" /\ cur.pc = "return"
    /\ cur' = Idle
    /\ obs' = Quiet("publish_return")
    /\ done' = Some([cur EXCEPT !.pc = "returned"])
    /\ run' = RunAfter(cur)
    /\ SharedUnchanged
    /\ UNCHANGED <<lock, data, last_update_success, polls_in_flight,
                   refreshes_in_flight, log>>
    /\ RestUnchanged

\* the return of the no-sample branch leaves the with block
PublishReturn ==
    /\ cur.kind = "publish" /\ cur.pc = "return"
    /\ lock' = "free"
    /\ cur' = Idle
    /\ obs' = Quiet("publish_return")
    /\ done' = Some([cur EXCEPT !.pc = "returned"])
    /\ run' = RunAfter(cur)
    /\ SharedUnchanged
    /\ UNCHANGED <<data, last_update_success, polls_in_flight,
                   refreshes_in_flight, log>>
    /\ RestUnchanged

\* the end of the with block
PublishRelease ==
    /\ cur.kind = "publish" /\ cur.pc = "release"
    /\ lock' = "free"
    /\ cur' = [cur EXCEPT !.pc = "set"]
    /\ obs' = Quiet("publish_release")
    /\ done' = None
    /\ SharedUnchanged
    /\ UNCHANGED <<data, last_update_success, polls_in_flight,
                   refreshes_in_flight, log, run>>
    /\ RestUnchanged

\* self.async_set_updated_data(mean_data): the base class stores the data
\* and tells the listeners
PublishSetData ==
    /\ cur.kind = "publish" /\ cur.pc = "set"
    /\ data' = cur.mean
    /\ last_update_success' = TRUE
    /\ cur' = Idle
    /\ obs' = Notify("publish_set", "updated_data", FALSE)
    /\ done' = Some([cur EXCEPT !.pc = "returned", !.pubs = @ + 1])
    /\ run' = RunAfter([cur EXCEPT !.pubs = @ + 1])
    /\ SharedUnchanged
    /\ UNCHANGED <<lock, polls_in_flight, refreshes_in_flight, log>>
    /\ RestUnchanged

Next ==
    \/ PollTick
    \/ PollFetchFailed
    \/ PollFetchOk
    \/ PollAcquire
    \/ PollAdd
    \/ PollRelease
    \/ RefreshStart
    \/ RefreshFetchFailed
    \/ RefreshFetchOk
    \/ RefreshAcquire
    \/ RefreshAdd
    \/ RefreshBuild
    \/ RefreshRelease
    \/ RefreshStore
    \/ PublishTick
    \/ PublishAcquire
    \/ PublishNoSample
    \/ PublishBuild
    \/ PublishClear
    \/ PublishReturn
    \/ PublishRelease
    \/ PublishSetData

Spec == Init /\ [][Next]_vars

(***************************************************************************)
(* The same callbacks under fair scheduling, with intervals of at most     *)
(* MaxFairLog recorded samples.                                            *)
(***************************************************************************)
MaxFairLog == 1

FairPollFetchOk == Len(log) < MaxFairLog /\ PollFetchOk
FairRefreshFetchOk == Len(log) < MaxFairLog /\ RefreshFetchOk

FairNext ==
    \/ PollTick
    \/ PollFetchFailed
    \/ FairPollFetchOk
    \/ PollAcquire
    \/ PollAdd
    \/ PollRelease
    \/ RefreshStart
    \/ RefreshFetchFailed
    \/ FairRefreshFetchOk
    \/ RefreshAcquire
    \/ RefreshAdd
    \/ RefreshBuild
    \/ RefreshRelease
    \/ RefreshStore
    \/ PublishTick
    \/ PublishAcquire
    \/ PublishNoSample
    \/ PublishBuild
    \/ PublishClear
    \/ PublishReturn
    \/ PublishRelease
    \/ PublishSetData

\* The event loop runs a callback that is ready to go on: a callback
\* between two of its awaits, or one whose lock is free.
Resumes == cur.kind # "none" /\ FairNext

SpecFair == Init /\ [][FairNext]_vars /\ WF_vars(Resumes)

(***************************************************************************)
(* Periodic operation: the two timer callbacks alone, no refresh being     *)
(* requested.  last_update_success is then cleared by the Aggregator's     *)
(* no-sample signal only, and set again by its next publish.               *)
(***************************************************************************)
PeriodicNext ==
    \/ PollTick
    \/ PollFetchFailed
    \/ PollFetchOk
    \/ PollAcquire
    \/ PollAdd
    \/ PollRelease
    \/ PublishTick
    \/ PublishAcquire
    \/ PublishNoSample
    \/ PublishBuild
    \/ PublishClear
    \/ PublishReturn
    \/ PublishRelease
    \/ PublishSetData

SpecPeriodic == Init /\ [][PeriodicNext]_vars

(***************************************************************************)
(* async_start, async_stop, and the entry's setup and unload.              *)
(*                                                                         *)
(* async_track_time_interval registers a callback with the host and        *)
(* returns the function that cancels the registration; timers counts the   *)
(* live registrations.  A registered callback is invoked by the host for   *)
(* as long as its registration lives.                                      *)
(***************************************************************************)
\* What the callbacks and the parser leave alone, and start and stop too.
CoordinatorUntouched ==
    UNCHANGED <<buffer, interval_last_sample, interval_has_sample, lock,
                data, last_update_success, polls_in_flight,
                refreshes_in_flight, cur, log, run>>

\* async_start registers both callbacks and returns at once.
AsyncStartAgain ==
    /\ cur.kind = "none"
    /\ unsub_scan' = Some("scan")
    /\ unsub_storage' = Some("storage")
    /\ timers' = [scan |-> timers.scan + 1, storage |-> timers.storage + 1]
    /\ obs' = Calls("start", <<"track_scan", "track_storage">>)
    /\ done' = None
    /\ CoordinatorUntouched
    /\ UNCHANGED <<entry, parserVars, sensorVars, flowVars>>

\* async_start: nothing when either handle is set, else both callbacks are
\* registered and their cancel functions kept.
AsyncStart ==
    /\ cur.kind = "none"
    /\ IF unsub_scan # None \/ unsub_storage # None
       THEN /\ obs' = Calls("start", <<>>)
            /\ UNCHANGED <<unsub_scan, unsub_storage, timers>>
       ELSE /\ unsub_scan' = Some("scan")
            /\ unsub_storage' = Some("storage")
            /\ timers' = [scan |-> timers.scan + 1,
                          storage |-> timers.storage + 1]
            /\ obs' = Calls("start", <<"track_scan", "track_storage">>)
    /\ done' = None
    /\ CoordinatorUntouched
    /\ UNCHANGED <<entry, parserVars, sensorVars, flowVars>>

\* async_stop cancels the scan registration and forgets the storage one.
AsyncStopScanOnly ==
    /\ cur.kind = "none"
    /\ timers' = [timers EXCEPT
                    !.scan = IF unsub_scan # None THEN @ - 1 ELSE @]
    /\ unsub_scan' = None
    /\ unsub_storage' = None
    /\ obs' = Calls("stop",
                    IF unsub_scan # None THEN <<"cancel_scan">> ELSE <<>>)
    /\ done' = None
    /\ CoordinatorUntouched
    /\ UNCHANGED <<entry, parserVars, sensorVars, flowVars>>

\* async_stop: each handle that is set is called and then unset.
AsyncStop ==
    /\ cur.kind = "none"
    /\ timers' = [scan |-> IF unsub_scan # None
                           THEN timers.scan - 1 ELSE timers.scan,
                  storage |-> IF unsub_storage # None
                              THEN timers.storage - 1 ELSE timers.storage]
    /\ unsub_scan' = None
    /\ unsub_storage' = None
    /\ obs' = Calls("stop",
                    (IF unsub_scan # None THEN <<"cancel_scan">> ELSE <<>>)
                    \o (IF unsub_storage # None
                        THEN <<"cancel_storage">> ELSE <<>>))
    /\ done' = None
    /\ CoordinatorUntouched
    /\ UNCHANGED <<entry, parserVars, sensorVars, flowVars>>

\* The host invokes _async_poll_device for a live scan registration.
ScanTimerFires ==
    /\ timers.scan > 0
    /\ PollTick

\* The host invokes _async_publish_means for a live storage registration.
StorageTimerFires ==
    /\ timers.storage > 0
    /\ PublishTick

\* The constructor's parameters after self; none has a default.
COORDINATOR_PARAMS == <<"hass", "host", "scan_interval", "storage_interval">>

\* The arguments async_setup_entry constructs the coordinator with.
SETUP_ARGS == <<"hass", "host", "scan_interval">>

\* A positional call binds when every parameter gets its argument; Python
\* raises TypeError otherwise.
Binds(params, args) == Len(args) = Len(params)

DEFAULT_SCAN_INTERVAL == 3

\* entry.data.get("scan_interval"): absent, or the configured seconds
ScanIntervals == {None, Some(5)}

\* async_setup_entry: the scan interval is read from the entry and the
\* coordinator is constructed with it.  The construction raises TypeError
\* (storage_interval has no argument), so the first refresh, the device
\* registration and the platform setup behind it are never reached; the
\* handler has no call of async_start.
SetupEntry ==
    /\ cur.kind = "none"
    /\ \E configured \in ScanIntervals :
         LET scan_interval ==
                 IF configured = None THEN DEFAULT_SCAN_INTERVAL
                 ELSE configured[1]
         IN  entry' =
                 IF Binds(COORDINATOR_PARAMS, SETUP_ARGS)
                 THEN [state |-> "first_refresh", error |-> "",
                       returned |-> "none", scan_interval |-> scan_interval]
                 ELSE [state |-> "setup_error", error |-> "TypeError",
                       returned |-> "raised", scan_interval |-> 0]
    /\ obs' = Quiet("setup")
    /\ done' = None
    /\ CoordinatorUntouched
    /\ UNCHANGED <<unsub_scan, unsub_storage, timers, parserVars,
                   sensorVars, flowVars>>

\* async_unload_entry: the platforms are unloaded and the host's answer is
\* returned.  The handler has no call of async_stop.
UnloadEntry ==
    /\ cur.kind = "none"
    /\ \E unload_ok \in BOOLEAN :
         entry' = [entry EXCEPT
                     !.state = IF unload_ok THEN "not_loaded"
                               ELSE "failed_unload",
                     !.error = "",
                     !.returned = IF unload_ok THEN "true" ELSE "false"]
    /\ obs' = Quiet("unload")
    /\ done' = None
    /\ CoordinatorUntouched
    /\ UNCHANGED <<unsub_scan, unsub_storage, timers, parserVars,
                   sensorVars, flowVars>>

LifeNext ==
    \/ AsyncStart
    \/ AsyncStop
    \/ SetupEntry
    \/ UnloadEntry
    \/ ScanTimerFires
    \/ StorageTimerFires
    \/ PollFetchFailed
    \/ PollFetchOk
    \/ PollAcquire
    \/ PollAdd
    \/ PollRelease
    \/ PublishAcquire
    \/ PublishNoSample
    \/ PublishBuild
    \/ PublishClear
    \/ PublishReturn
    \/ PublishRelease
    \/ PublishSetData

\* A coordinator constructed with all four arguments, its timers driven by
\* the host.
SpecLife == Init /\ [][LifeNext]_vars

(***************************************************************************)
(* _parse_xml_data.  A text is the sequence of its characters; a document  *)
(* is either not well-formed or gives, for each tag, whether the root has  *)
(* such a child and what its text is (None for an element without text).   *)
(***************************************************************************)
Whitespace == {" ", "\n"}

DigitValue ==
    ("0" :> 0) @@ ("1" :> 1) @@ ("2" :> 2) @@ ("3" :> 3) @@ ("4" :> 4) @@
    ("5" :> 5) @@ ("6" :> 6) @@ ("7" :> 7) @@ ("8" :> 8) @@ ("9" :> 9)

Digits == DOMAIN DigitValue

\* str.strip(): the text without its leading and trailing whitespace
RECURSIVE lstrip(_)
lstrip(t) ==
    IF t # <<>> /\ Head(t) \in Whitespace THEN lstrip(Tail(t)) ELSE t

RECURSIVE rstrip(_)
rstrip(t) ==
    IF t # <<>> /\ t[Len(t)] \in Whitespace
    THEN rstrip(SubSeq(t, 1, Len(t) - 1))
    ELSE t

strip(t) == rstrip(lstrip(t))

\* the index behind the first token of a text that starts with one
TokenEnd(t) ==
    IF \E i \in 1..Len(t) : t[i] \in Whitespace
    THEN CHOOSE i \in 1..Len(t) :
             /\ t[i] \in Whitespace
             /\ \A j \in 1..(i - 1) : t[j] \notin Whitespace
    ELSE Len(t) + 1

\* str.split(): the maximal runs of non-whitespace characters, in order
RECURSIVE split(_)
split(t) ==
    LET rest == lstrip(t)
    IN  IF rest = <<>> THEN <<>>
        ELSE <<SubSeq(rest, 1, TokenEnd(rest) - 1)>>
             \o split(SubSeq(rest, TokenEnd(rest), Len(rest)))

RECURSIVE DigitsValue(_)
DigitsValue(ds) ==
    IF ds = <<>> THEN 0
    ELSE 10 * DigitsValue(SubSeq(ds, 1, Len(ds) - 1))
         + DigitValue[ds[Len(ds)]]

RECURSIVE Pow10(_)
Pow10(n) == IF n = 0 THEN 1 ELSE 10 * Pow10(n - 1)

\* float(text) for decimal notation: an optional sign, digits, at most one
\* point, at least one digit; anything else raises ValueError.  (Exponents,
\* inf, nan and digit separators are not among the texts drawn here.)  The
\* value is kept in tenths of the unit, as a reduced fraction.
float_text(t) ==
    LET signed == t # <<>> /\ Head(t) \in {"+", "-"}
        body == IF signed THEN Tail(t) ELSE t
        points == {i \in 1..Len(body) : body[i] = "."}
        digs == SelectSeq(body, LAMBDA c : c \in Digits)
        ok == /\ \A i \in 1..Len(body) : body[i] \in Digits \cup {"."}
              /\ Cardinality(points) <= 1
              /\ digs # <<>>
        frac == IF points = {} THEN 0
                ELSE Len(body) - (CHOOSE i \in points : TRUE)
        n == 10 * DigitsValue(digs)
        d == Pow10(frac)
        g == GCD(n, d)
        sign == IF signed /\ Head(t) = "-" THEN 0 - 1 ELSE 1
    IN  IF ok THEN [exc |-> "none", value |-> Num(sign * (n \div g), d \div g)]
        ELSE [exc |-> "ValueError", value |-> PyNone]

\* The second component of each XML_FIELDS entry.
CONVERTER == [k \in XML_FIELDS |-> IF k = "state" THEN "none" ELSE "float"]

\* The keys of XML_FIELDS that start with "v-pv" or "i-pv".
PV_KEYS ==
    {"v-pv1", "i-pv1", "v-pv2", "i-pv2", "v-pv3", "i-pv3", "v-pv4", "i-pv4"}

\* The keys whose text is cut down to its first token.
UNIT_KEYS == {"v-pv2", "i-pv2", "v-pv3", "i-pv3", "v-pv4", "i-pv4"}

\* The handler of the conversion catches ValueError alone.
CAUGHT_ValueErrorOnly == {"ValueError"}

\* except (ValueError, IndexError)
CAUGHT == {"ValueError", "IndexError"}

Absent == [present |-> FALSE, text |-> None]
Empty == [present |-> TRUE, text |-> None]
Text(t) == [present |-> TRUE, text |-> Some(t)]

\* Texts a device answers with.
TNormal == <<"N", "o", "r", "m", "a", "l">>
T230 == <<"2", "3", "0", ".", "0">>
T231 == <<"2", "3", "1", ".", "4">>
T231V == <<"2", "3", "1", ".", "4", " ", "V">>
TPadded == <<" ", "8", ".", "2", "5", "\n">>
TBlank == <<" ", " ">>
TNA == <<"N", "/", "A">>
TUnitFirst == <<"V", " ", "2", "3", "1", ".", "4">>

Texts == {TNormal, T230, T231, T231V, TPadded, TBlank, TNA, TUnitFirst}

\* The try block without the split: the whole trimmed text goes to the
\* converter.
convert_whole(key, text) ==
    LET raw_value == strip(text)
    IN  IF CONVERTER[key] = "float"
        THEN LET f == float_text(raw_value)
             IN  IF f.exc = "none"
                 THEN [out |-> "value", value |-> f.value, exc |-> "none"]
                 ELSE [out |-> "error", value |-> PyNone, exc |-> f.exc]
        ELSE [out |-> "value", value |-> Str(raw_value), exc |-> "none"]

\* The try block of the loop body for key, its element's text being text:
\* the text is trimmed, cut down to its first token for the keys that may
\* carry a unit, and converted; the value, or the exception raised.
convert(key, text) ==
    LET stripped == strip(text)
        tokens == split(stripped)
    IN  IF key \in UNIT_KEYS /\ tokens = <<>>
        THEN [out |-> "error", value |-> PyNone, exc |-> "IndexError"]
        ELSE LET raw_value ==
                     IF key \in UNIT_KEYS THEN tokens[1] ELSE stripped
             IN  IF CONVERTER[key] = "float"
                 THEN LET f == float_text(raw_value)
                      IN  IF f.exc = "none"
                          THEN [out |-> "value", value |-> f.value,
                                exc |-> "none"]
                          ELSE [out |-> "error", value |-> PyNone,
                                exc |-> f.exc]
                 ELSE [out |-> "value", value |-> Str(raw_value),
                       exc |-> "none"]

\* convert, tabulated over the keys and the texts drawn.
Converted ==
    EmptyDict @@ [k \in XML_FIELDS |->
                    EmptyDict @@ [t \in Texts |-> convert(k, t)]]

\* The missing-element branch warns once for the optional strings only.
parse_field_optional_once(key, el, seen) ==
    IF ~el.present \/ el.text = None
    THEN [out |-> "missing", value |-> PyNone, exc |-> "none",
          warned |-> IF key \in {"v-pv3", "i-pv3", "v-pv4", "i-pv4"}
                     THEN key \notin seen ELSE TRUE]
    ELSE LET c == Converted[key][el.text[1]]
         IN  [out |-> c.out, value |-> c.value, exc |-> c.exc,
              warned |-> FALSE]

\* One pass of the loop body for key, its element being el and
\* _missing_pv_sensors being seen: the element is missing (with a warning,
\* or without one for a PV key warned about before), or its text converts
\* to a value, or the conversion raises.
parse_field(key, el, seen) ==
    IF ~el.present \/ el.text = None
    THEN [out |-> "missing", value |-> PyNone, exc |-> "none",
          warned |-> IF key \in PV_KEYS THEN key \notin seen ELSE TRUE]
    ELSE LET c == Converted[key][el.text[1]]
         IN  [out |-> c.out, value |-> c.value, exc |-> c.exc,
              warned |-> FALSE]

\* The keys of XML_FIELDS in the order the loop visits them.
XML_FIELD_ORDER ==
    <<"state", "v-grid", "i-grid", "f-grid", "p-ac", "temp", "e-today",
      "t-today", "e-total", "CO2", "t-total", "v-pv1", "i-pv1", "v-pv2",
      "i-pv2", "v-pv3", "i-pv3", "v-pv4", "i-pv4", "v-bus">>

\* for key, (xml_tag, converter) in XML_FIELDS.items(): the loop from the
\* first of keys on.  acc holds the dict built so far, the keys warned about
\* as missing, the keys whose conversion was caught, _missing_pv_sensors,
\* and the exception that ended the loop, if any.
RECURSIVE parse_loop(_, _, _)
parse_loop(keys, doc, acc) ==
    IF keys = <<>> \/ acc.exc # "none" THEN acc
    ELSE LET key == Head(keys)
             o == parse_field(key, doc.elems[key], acc.seen)
         IN  parse_loop(Tail(keys), doc,
                 CASE o.out = "missing" ->
                        [acc EXCEPT
                           !.missing = IF o.warned THEN @ \cup {key} ELSE @,
                           !.seen = IF key \in PV_KEYS /\ o.warned
                                    THEN @ \cup {key} ELSE @]
                   [] o.out = "value" ->
                        [acc EXCEPT !.result = (key :> o.value) @@ @]
                   [] OTHER ->
                        IF o.exc \in CAUGHT
                        THEN [acc EXCEPT !.failed = @ \cup {key}]
                        ELSE [acc EXCEPT !.exc = o.exc])

\* _parse_xml_data(xml_content) with _missing_pv_sensors = seen: UpdateFailed
\* for a document that is not well-formed; else the loop over the fields.
parse_xml_data(doc, seen) ==
    IF doc.kind # "xml"
    THEN [exc |-> "UpdateFailed", result |-> EmptyDict, missing |-> {},
          failed |-> {}, seen |-> seen]
    ELSE parse_loop(XML_FIELD_ORDER, doc,
                    [exc |-> "none", result |-> EmptyDict, missing |-> {},
                     failed |-> {}, seen |-> seen])

Entries ==
    {Absent, Empty}
    \cup {Text(t) : t \in {T231, T231V, TPadded, TBlank, TNA, TUnitFirst}}

\* A well-formed answer with every element present.
BaseDoc ==
    [kind |-> "xml",
     elems |-> [k \in XML_FIELDS |->
                  IF k = "state" THEN Text(TNormal) ELSE Text(T230)]]

\* The elements the documents differ in: the status text, a grid reading,
\* and one reading of each of the four strings.
VariedKeys == {"state", "v-grid", "v-pv1", "i-pv2", "v-pv3", "i-pv4"}

\* The documents parsed: not well-formed, or BaseDoc with one element
\* replaced: one of VariedKeys by any entry, or one of the other fields
\* that may carry a unit by another text.
Docs ==
    {[kind |-> "malformed", elems |-> BaseDoc.elems]}
    \cup {[BaseDoc EXCEPT !.elems[k] = e] : k \in VariedKeys, e \in Entries}
    \cup {[BaseDoc EXCEPT !.elems[k] = e] :
             k \in UNIT_KEYS \ VariedKeys, e \in Entries \ {Absent, Empty}}

\* One call of _parse_xml_data by the coordinator.
Parse ==
    /\ \E doc \in Docs :
         LET r == parse_xml_data(doc, missing_pv_sensors)
         IN  /\ missing_pv_sensors' = r.seen
             /\ parsed' = [xml |-> Some(doc), exc |-> r.exc,
                           result |-> r.result, missing |-> r.missing,
                           failed |-> r.failed]
    /\ obs' = Quiet("parse")
    /\ done' = None
    /\ UNCHANGED <<buffer, interval_last_sample, interval_has_sample, lock,
                   data, last_update_success, polls_in_flight,
                   refreshes_in_flight, cur, log, run>>
    /\ UNCHANGED <<lifeVars, sensorVars, flowVars>>

ParserNext == Parse

SpecParser == Init /\ [][ParserNext]_vars

(***************************************************************************)
(* SajSununoSensor.native_value, read by the host whenever it writes the   *)
(* entity's state.  One entity is followed; the coordinator it reads from  *)
(* has a snapshot, which its updates replace, and a last_update_success    *)
(* flag.  Dates are counted in days.                                       *)
(***************************************************************************)
MaxDay == 2

SENSOR_KEYS == XML_FIELDS

SENSOR_FLOAT_KEYS ==
    {"v-grid", "i-grid", "p-ac", "temp", "e-today", "t-today", "e-total",
     "t-total", "CO2"}

\* SENSOR_RETAIN_LAST_ON_UNAVAILABLE without the CO2 sensor.
SENSOR_RETAIN_WITHOUT_CO2 == {"e-total", "t-total", "e-today", "t-today"}

SENSOR_RETAIN_LAST_ON_UNAVAILABLE ==
    {"CO2", "e-total", "t-total", "e-today", "t-today"}

\* The keys native_value checks the date for.
DAILY_KEYS == {"e-today", "t-today"}

\* The snapshots the coordinator can hold: the samples, and two with other
\* running totals.
SensorSnapshots ==
    Samples
    \cup {DictSet(DictSet(SampleB, "e-total", Float(123461)), "CO2",
                   Float(98010)),
          DictSet(SampleC, "t-total", Float(36005))}

\* an exception leaves native_value
Raised(exc) == [t |-> "exc", n |-> 0, d |-> 1, s |-> exc]

\* What a read gives: the value returned and the entity's fields after it.
\* found is the reset date the read found.
Returned(v, last_value, last_reset_date) ==
    [value |-> v, last_value |-> last_value,
     last_reset_date |-> last_reset_date, found |-> sensor.last_reset_date]

\* native_value with the availability test ahead of the date test.
native_value_failure_first ==
    LET key == sensor.key
        value == DictGet(data[1], key)
    IN  IF ~last_update_success
        THEN Returned(IF key = "state" THEN PyNone
                      ELSE IF key \in SENSOR_RETAIN_LAST_ON_UNAVAILABLE
                           THEN (IF sensor.last_value # None
                                 THEN sensor.last_value[1] ELSE Float(0))
                           ELSE Float(0),
                      sensor.last_value, sensor.last_reset_date)
        ELSE IF key \in DAILY_KEYS /\ sensor.last_reset_date # Some(today)
        THEN Returned(Float(0), Some(Float(0)), Some(today))
        ELSE IF value = PyNone
        THEN Returned(PyNone, sensor.last_value, sensor.last_reset_date)
        ELSE IF key \in SENSOR_FLOAT_KEYS /\ FloatConv(value) = None
        THEN Returned(Raised("ValueError"), sensor.last_value,
                      sensor.last_reset_date)
        ELSE LET v == IF key \in SENSOR_FLOAT_KEYS /\ value.t # "num"
                      THEN Float(FloatConv(value)[1]) ELSE value
             IN  Returned(v, Some(v), sensor.last_reset_date)

\* native_value: a daily sensor whose reset date is unset or is not today
\* records today, forgets its last value and returns 0.0; otherwise, with
\* the last update failed, None for state, the last value (0.0 if none) for
\* the retaining sensors and 0.0 for the rest; otherwise the snapshot's
\* value, as a float for the float keys, which becomes the last value.
native_value ==
    LET key == sensor.key
        value == DictGet(data[1], key)
    IN  IF key \in DAILY_KEYS /\ sensor.last_reset_date # Some(today)
        THEN Returned(Float(0), Some(Float(0)), Some(today))
        ELSE IF ~last_update_success
        THEN Returned(IF key = "state" THEN PyNone
                      ELSE IF key \in SENSOR_RETAIN_LAST_ON_UNAVAILABLE
                           THEN (IF sensor.last_value # None
                                 THEN sensor.last_value[1] ELSE Float(0))
                           ELSE Float(0),
                      sensor.last_value, sensor.last_reset_date)
        ELSE IF value = PyNone
        THEN Returned(PyNone, sensor.last_value, sensor.last_reset_date)
        ELSE IF key \in SENSOR_FLOAT_KEYS /\ FloatConv(value) = None
        THEN Returned(Raised("ValueError"), sensor.last_value,
                      sensor.last_reset_date)
        ELSE LET v == IF key \in SENSOR_FLOAT_KEYS /\ value.t # "num"
                      THEN Float(FloatConv(value)[1]) ELSE value
             IN  Returned(v, Some(v), sensor.last_reset_date)

\* What the sensor's reads and the clock leave alone.
SensorFrame ==
    UNCHANGED <<buffer, interval_last_sample, interval_has_sample, lock,
                polls_in_flight, refreshes_in_flight, cur, log, run,
                lifeVars, parserVars, flowVars>>

\* The host reads native_value.
ReadNativeValue ==
    /\ sensor' = [sensor EXCEPT
                    !.last_value = native_value.last_value,
                    !.last_reset_date = native_value.last_reset_date]
    /\ native' = Some([value |-> native_value.value,
                       found |-> native_value.found])
    /\ obs' = Quiet("read")
    /\ done' = None
    /\ UNCHANGED <<data, last_update_success, today>>
    /\ SensorFrame

\* Midnight passes.
DayPasses ==
    /\ today < MaxDay
    /\ today' = today + 1
    /\ obs' = Quiet("midnight")
    /\ done' = None
    /\ UNCHANGED <<data, last_update_success, sensor, native>>
    /\ SensorFrame

\* The coordinator ends an update: a refresh or publish stores a snapshot,
\* a failure clears last_update_success and keeps the snapshot.
CoordinatorUpdates ==
    /\ \/ \E s \in SensorSnapshots :
            /\ data' = Some(s)
            /\ last_update_success' = TRUE
       \/ /\ last_update_success' = FALSE
          /\ UNCHANGED data
    /\ obs' = Quiet("update")
    /\ done' = None
    /\ UNCHANGED <<sensor, today, native>>
    /\ SensorFrame

\* An entity just added, for a coordinator whose first refresh has stored
\* a snapshot.
SensorInit ==
    /\ buffer = [k \in AVERAGE_KEYS |-> <<>>]
    /\ interval_last_sample = None
    /\ interval_has_sample = FALSE
    /\ lock = "free"
    /\ data \in {Some(s) : s \in SensorSnapshots}
    /\ last_update_success = TRUE
    /\ polls_in_flight = 0
    /\ refreshes_in_flight = 0
    /\ cur = Idle
    /\ obs = Quiet("init")
    /\ done = None
    /\ log = <<>>
    /\ run = NoRun
    /\ unsub_scan = None
    /\ unsub_storage = None
    /\ missing_pv_sensors = {}
    /\ LifeIdle
    /\ ParserIdle
    /\ sensor \in {NewSensor(k) : k \in SENSOR_KEYS}
    /\ today = 0
    /\ native = None
    /\ FlowIdle

SensorNext ==
    \/ ReadNativeValue
    \/ DayPasses
    \/ CoordinatorUpdates

SpecSensor == SensorInit /\ [][SensorNext]_vars

(***************************************************************************)
(* ConfigFlow: the user step and the reconfigure step.  One flow handler   *)
(* and the config entry it is about are followed; the host makes a new     *)
(* handler for every flow.  A step runs to its answer in one go: the host  *)
(* gives a handler one step at a time.                                     *)
(***************************************************************************)
DEVICE_INFO_KEYS == {"model", "model_id", "serial_number", "sw_version"}

\* DEVICE_INFO_FIELDS: key -> XML tag; every default is "unknown".
DEVICE_INFO_TAG ==
    [k \in DEVICE_INFO_KEYS |->
        CASE k = "model" -> "Model"
          [] k = "model_id" -> "Product_Code"
          [] k = "serial_number" -> "SN"
          [] k = "sw_version" -> "MFMW"]

DEVICE_INFO_DEFAULT == [k \in DEVICE_INFO_KEYS |-> "unknown"]

\* equipment_data.xml documents: tag -> text, "" for an empty element.
FullDeviceDoc ==
    [t \in {"Model", "Product_Code", "SN", "MFMW"} |->
        CASE t = "Model" -> "Sununo-TL3KA"
          [] t = "Product_Code" -> "12"
          [] t = "SN" -> "31201"
          [] t = "MFMW" -> "v1.40"]

DeviceDocs ==
    {FullDeviceDoc,
     [t \in {"Model", "Product_Code", "MFMW"} |-> FullDeviceDoc[t]],
     [FullDeviceDoc EXCEPT !["MFMW"] = ""]}

\* What the GET of real_time_data.xml can end in: a good status, the
\* timeout, an aiohttp.ClientError (raise_for_status included), or any
\* other exception.
ValidateAnswers == {"ok", "timeout", "client_error", "other"}

\* What the GET of equipment_data.xml can end in; xml_bad is a body
\* ET.fromstring rejects.
FetchAnswers ==
    {[kind |-> "ok", doc |-> d] : d \in DeviceDocs}
    \cup {[kind |-> k, doc |-> FullDeviceDoc] :
            k \in {"timeout", "client_error", "xml_bad"}}

Hosts == {"192.168.1.10", "192.168.1.11"}

\* What the form can hand in.
UserInputs ==
    {[host |-> h, device_name |-> "Inverter", area |-> "Roof",
      scan_interval |-> n] : h \in Hosts, n \in {DEFAULT_SCAN_INTERVAL, 5}}

\* The area names the host's registry can hold, sorted.
AreaRegistries == {<<>>, <<"Garage", "Roof">>}

\* root.findtext(tag, default="unknown")
findtext(doc, tag) == IF tag \in DOMAIN doc THEN doc[tag] ELSE "unknown"

\* _validate_connection that lets a client error pass.
validate_connection_lenient(answer) ==
    CASE answer = "ok" -> "returned"
      [] answer = "timeout" -> "CannotConnect"
      [] answer = "client_error" -> "returned"
      [] OTHER -> "Exception"

\* _validate_connection: returns, or raises CannotConnect for a timeout and
\* for a client error; any other exception passes through.
validate_connection(answer) ==
    CASE answer = "ok" -> "returned"
      [] answer = "timeout" -> "CannotConnect"
      [] answer = "client_error" -> "CannotConnect"
      [] OTHER -> "Exception"

\* _async_fetch_device_info: the four fields of the document, "unknown" for
\* a missing element; CannotConnect for a timeout; the defaults after a
\* client error; a parse error passes through.
async_fetch_device_info(answer) ==
    CASE answer.kind = "ok" ->
            [exc |-> "none",
             info |-> [k \in DEVICE_INFO_KEYS |->
                          findtext(answer.doc, DEVICE_INFO_TAG[k])]]
      [] answer.kind = "timeout" ->
            [exc |-> "CannotConnect", info |-> DEVICE_INFO_DEFAULT]
      [] answer.kind = "client_error" ->
            [exc |-> "none", info |-> DEVICE_INFO_DEFAULT]
      [] OTHER -> [exc |-> "Exception", info |-> DEVICE_INFO_DEFAULT]

\* errors["base"] for the exception a step caught
ErrorsFor(exc) ==
    IF exc = "CannotConnect" THEN {<<"base", "cannot_connect">>}
    ELSE {<<"base", "unknown">>}

\* The try block of both steps: the exception that ends it ("none" when it
\* reaches its return), whether the device info was asked for, and the
\* info.
step_try(va, fa) ==
    IF validate_connection(va) # "returned"
    THEN [exc |-> validate_connection(va), fetched |-> FALSE,
          info |-> DEVICE_INFO_DEFAULT]
    ELSE [exc |-> async_fetch_device_info(fa).exc, fetched |-> TRUE,
          info |-> async_fetch_device_info(fa).info]

\* {**user_input, **device_info}
EntryData(input, info) ==
    [host |-> input.host, device_name |-> input.device_name,
     area |-> input.area, scan_interval |-> input.scan_interval,
     model |-> info["model"], model_id |-> info["model_id"],
     serial_number |-> info["serial_number"],
     sw_version |-> info["sw_version"]]

\* self._areas after "if self._areas is None: self._areas = _get_areas()"
AreasAfter(reg) == IF flow.areas = None THEN Some(reg) ELSE flow.areas

FirstArea(areas) == IF Len(areas) > 0 THEN areas[1] ELSE ""

FlowFrame ==
    /\ done' = None
    /\ CoordinatorUntouched
    /\ UNCHANGED <<lifeVars, parserVars, sensorVars>>

\* The host makes a handler for a new flow.
FlowInit ==
    /\ flow # NewFlow
    /\ flow' = NewFlow
    /\ obs' = Quiet("flow_init")
    /\ UNCHANGED config_entry
    /\ FlowFrame

\* async_step_user, for the flow that adds the entry.
AsyncStepUser ==
    /\ config_entry = None
    /\ flow.result.type = "none"
         \/ (flow.result.type = "form" /\ flow.result.step_id = "user")
    /\ \E input \in {None} \cup {Some(i) : i \in UserInputs},
          va \in ValidateAnswers, fa \in FetchAnswers,
          reg \in AreaRegistries :
          LET try == step_try(va, fa) IN
          IF input # None /\ try.exc = "none"
          THEN /\ config_entry' = Some(EntryData(input[1], try.info))
               /\ flow' = [flow EXCEPT
                    !.input = input, !.validate = va, !.fetch = fa.kind,
                    !.result = [type |-> "create_entry",
                                title |-> input[1].device_name,
                                data |-> EntryData(input[1], try.info)]]
          ELSE /\ UNCHANGED config_entry
               /\ flow' = [flow EXCEPT
                    !.areas = AreasAfter(reg),
                    !.input = input,
                    !.validate = IF input = None THEN "not_called" ELSE va,
                    !.fetch = IF input # None /\ try.fetched
                              THEN fa.kind ELSE "not_called",
                    !.result =
                        [type |-> "form", step_id |-> "user",
                         errors |-> IF input = None THEN {}
                                    ELSE ErrorsFor(try.exc),
                         host |-> "", device_name |-> "",
                         area |-> FirstArea(AreasAfter(reg)[1]),
                         scan_interval |-> DEFAULT_SCAN_INTERVAL]]
    /\ obs' = Quiet("step_user")
    /\ FlowFrame

\* async_step_reconfigure, for a flow about the entry.
AsyncStepReconfigure ==
    /\ config_entry # None
    /\ flow.result.type = "none"
         \/ (flow.result.type = "form" /\ flow.result.step_id = "reconfigure")
    /\ \E input \in {None} \cup {Some(i) : i \in UserInputs},
          va \in ValidateAnswers, fa \in FetchAnswers,
          reg \in AreaRegistries :
          LET try == step_try(va, fa) IN
          IF input # None /\ try.exc = "none"
          THEN /\ config_entry' = Some(EntryData(input[1], try.info))
               /\ flow' = [flow EXCEPT
                    !.input = input, !.validate = va, !.fetch = fa.kind,
                    !.result = [type |-> "abort",
                                reason |-> "reconfigure_successful",
                                title |-> input[1].device_name]]
          ELSE /\ UNCHANGED config_entry
               /\ flow' = [flow EXCEPT
                    !.areas = AreasAfter(reg),
                    !.input = input,
                    !.validate = IF input = None THEN "not_called" ELSE va,
                    !.fetch = IF input # None /\ try.fetched
                              THEN fa.kind ELSE "not_called",
                    !.result =
                        [type |-> "form", step_id |-> "reconfigure",
                         errors |-> IF input = None THEN {}
                                    ELSE ErrorsFor(try.exc),
                         host |-> config_entry[1].host,
                         device_name |-> config_entry[1].device_name,
                         area |-> config_entry[1].area,
                         scan_interval |-> config_entry[1].scan_interval]]
    /\ obs' = Quiet("step_reconfigure")
    /\ FlowFrame

FlowNext ==
    \/ FlowInit
    \/ AsyncStepUser
    \/ AsyncStepReconfigure

SpecFlow == Init /\ [][FlowNext]_vars

(***************************************************************************)
(* _add_sample and _clear_buffer by themselves, called with any sample:    *)
(* averaged keys missing, None, text that is a number and text that is     *)
(* not one.                                                                *)
(***************************************************************************)
AnySamples ==
    {SampleA, SampleB, SampleC, EmptyDict,
     DictSet(SampleA, "temp", PyNone),
     DictSet(SampleC, "i-grid", Str("N/A")),
     DictSet(SampleA, "v-pv1", PyNone),
     DictSet(SampleA, "v-pv1", Str("N/A")),
     DictSet(SampleB, "v-pv1", Str("149.0")),
     [k \in {"state", "e-today"} |-> SampleC[k]]}

BufferFrame ==
    /\ done' = None
    /\ UNCHANGED <<lock, data, last_update_success, polls_in_flight,
                   refreshes_in_flight, cur, run>>
    /\ RestUnchanged

\* self._add_sample(d)
CallAddSample ==
    /\ Len(log) < MaxBuf
    /\ \E d \in AnySamples :
          /\ SetShared(add_sample(Shared, d))
          /\ log' = Append(log, [src |-> "call", sample |-> d])
    /\ obs' = Touch("add_sample")
    /\ BufferFrame

\* self._clear_buffer()
CallClearBuffer ==
    /\ SetShared(clear_buffer(Shared))
    /\ log' = <<>>
    /\ obs' = Touch("clear_buffer")
    /\ BufferFrame

BufferNext ==
    \/ CallAddSample
    \/ CallClearBuffer

SpecBuffer == Init /\ [][BufferNext]_vars

(***************************************************************************)
(* What the claims speak about, read off the history.                      *)
(***************************************************************************)
\* the elements of a sequence
Range(q) == {q[i] : i \in DOMAIN q}

\* the callback the last step ended, when it is of this kind
Ended(kind) == done # None /\ done[1].kind = kind

\* an Aggregator tick has just published / a refresh has just stored
Published == Ended("publish") /\ done[1].pubs = 1
Refreshed == Ended("refresh") /\ done[1].pubs = 1

\* the entries of a log recorded by the given callbacks
RECURSIVE From(_, _)
From(lg, srcs) ==
    IF lg = <<>> THEN <<>>
    ELSE IF Head(lg).src \in srcs
         THEN <<Head(lg)>> \o From(Tail(lg), srcs)
         ELSE From(Tail(lg), srcs)

\* the numeric values v1..vN the samples of a log carry for key k
RECURSIVE Carried(_, _)
Carried(lg, k) ==
    IF lg = <<>> THEN <<>>
    ELSE (IF k \in DOMAIN Head(lg).sample /\ Head(lg).sample[k].t = "num"
          THEN <<Head(lg).sample[k].n>> ELSE <<>>)
         \o Carried(Tail(lg), k)

\* x = (v1 + ... + vN) / N
IsMean(x, vs) ==
    /\ x.t = "num"
    /\ x.d > 0
    /\ x.n * Len(vs) = x.d * SumSeq(vs)

\* every averaged field of the snapshot is the mean of what lg carried
MeansOver(lg) ==
    \A k \in AVERAGE_KEYS :
        Carried(lg, k) # <<>> =>
            /\ k \in DOMAIN data[1]
            /\ IsMean(data[1][k], Carried(lg, k))

\* the log the callback c built its aggregate from
BuiltFrom(c) ==
    IF c.kind = "refresh"
    THEN Append(c.log0, [src |-> "refresh", sample |-> c.data[1]])
    ELSE c.log0

IsAggregate(d, lg) ==
    /\ lg # <<>>
    /\ LET tpl == lg[Len(lg)].sample
           avg == {k \in AVERAGE_KEYS : Carried(lg, k) # <<>>}
       IN  /\ DOMAIN d = (DOMAIN tpl) \cup avg
           /\ \A k \in DOMAIN d :
                IF k \in avg THEN IsMean(d[k], Carried(lg, k))
                ELSE d[k] = tpl[k]

Cleared ==
    [buffer |-> [k \in AVERAGE_KEYS |-> <<>>], last |-> None, has |-> FALSE]

C3_Stored ==
    /\ Refreshed =>
         /\ IsAggregate(data[1], BuiltFrom(done[1]))
         /\ log = BuiltFrom(done[1])
         /\ interval_has_sample
         /\ (done[1].log0 = <<>> => data = done[1].data)
    /\ Published =>
         /\ IsAggregate(data[1], done[1].log0)
         /\ Shared = Cleared
         /\ log = <<>>

C5_PassThroughFromLastSample ==
    (Published \/ Refreshed) =>
        LET lg == BuiltFrom(done[1])
        IN  /\ lg # <<>>
            /\ \A k \in XML_FIELDS \ AVERAGE_KEYS :
                 /\ (k \in DOMAIN data[1]) = (k \in DOMAIN lg[Len(lg)].sample)
                 /\ k \in DOMAIN data[1] =>
                      data[1][k] = lg[Len(lg)].sample[k]

\* two samples that differ in e-today and state: the last one shows
C5_Witness ==
    /\ Published
    /\ Len(done[1].log0) = 2
    /\ done[1].log0[1].sample["e-today"] = Float(100)
    /\ done[1].log0[2].sample["e-today"] = Float(102)
    /\ data[1]["e-today"] = Float(102)
    /\ data[1]["state"] = Str("Wait")

(***************************************************************************)
(* C6: right after a publish of _async_publish_means every buffer sequence *)
(* is empty, the has-sample flag is false and the last-sample cache is     *)
(* empty; and whoever runs outside the Aggregator's critical section sees  *)
(* the three cleared together: the flag is set exactly when a last sample  *)
(* is cached, and no sequence holds a value while the flag is false.       *)
(***************************************************************************)
C6_ClearedAfterPublish ==
    /\ Published => Shared = Cleared
    /\ lock # "publish" =>
         /\ interval_has_sample = (interval_last_sample # None)
         /\ ~interval_has_sample => buffer = Cleared.buffer

\* a publish that had two samples to clear
C6_Witness ==
    /\ Published
    /\ Len(done[1].pre[1].st.buffer["v-pv2"]) = 2
    /\ done[1].pre[1].st.has
    /\ buffer["v-pv2"] = <<>>

(***************************************************************************)
(* C7: two Aggregator ticks in a row with nothing recorded before or       *)
(* between them signal an update-error each, publish nothing, and leave    *)
(* buffer, flag, last sample and snapshot what they were before the first. *)
(***************************************************************************)
C7_TwiceNoSample ==
    run.n = 2 =>
        /\ run.errs = 2
        /\ run.pubs = 0
        /\ Some(Visible) = run.base

\* the second empty tick has just ended, a snapshot being visible
C7_Witness ==
    /\ run.n = 2
    /\ Ended("publish")
    /\ done[1].errs = 1
    /\ data # None

(***************************************************************************)
(* C8: a Poller tick whose fetch ends in a timeout, an HTTP or transport   *)
(* error or a parse failure returns normally and leaves buffer, last       *)
(* sample, flag and snapshot unchanged.                                    *)
(***************************************************************************)
C8_FailedPollChangesNothing ==
    (Ended("poll") /\ done[1].data = None) =>
        /\ ~done[1].raised
        /\ done[1].msg \in {"timeout", "http_error", "xml_bad"}
        /\ Some(Visible) = done[1].pre
        /\ lock = "free"

\* malformed XML arrives while samples are buffered and a snapshot is out
C8_Witness ==
    /\ Ended("poll")
    /\ done[1].data = None
    /\ done[1].msg = "xml_bad"
    /\ interval_has_sample
    /\ data # None

\* the lock is held by the running callback only, past its fetch
LockHeldInside ==
    lock # "free" =>
        /\ cur.kind = lock
        /\ cur.pc \in {"locked", "build", "clear", "release", "return"}

(***************************************************************************)
(* C9 (as stated): the lock is never held by a callback whose fetch is in  *)
(* progress, and every notification of _async_publish_means, the publish   *)
(* and the failure signal, is delivered with the lock released.  The       *)
(* failure signal is given inside the with block, so this fails.           *)
(***************************************************************************)
C9_NoNotifyUnderLock ==
    /\ LockHeldInside
    /\ obs.notify \in {"updated_data", "update_error"} => lock = "free"

(***************************************************************************)
(* C9 (amended): the lock is never held by a callback whose fetch is in    *)
(* progress (poll and refresh take it after the fetch has returned), and   *)
(* async_set_updated_data is called after the lock has been released; the  *)
(* failure signal async_set_update_error is given while the lock is held.  *)
(***************************************************************************)
C9_LockScope ==
    /\ LockHeldInside
    /\ obs.notify = "updated_data" => lock = "free"
    /\ obs.notify = "update_error" => lock = "publish"

\* fetches are in flight while the Aggregator holds the lock
C9_Witness ==
    /\ lock = "publish"
    /\ obs.notify = "update_error"
    /\ polls_in_flight > 0
    /\ refreshes_in_flight > 0

\* the step read or wrote the shared state
Accessed == obs'.access \/ Shared' # Shared

(***************************************************************************)
(* C10: every read and write of buffer, flag and last sample is made by a  *)
(* callback that holds the lock, and the Aggregator computes the mean and  *)
(* clears in one critical section: nothing is recorded between the two.    *)
(***************************************************************************)
C10_AccessUnderLock ==
    /\ [][Accessed => (lock # "free" /\ lock = cur.kind /\ lock' = lock)]_vars
    /\ []((cur.kind = "publish" /\ cur.pc = "clear") =>
            /\ lock = "publish"
            /\ log = cur.log0
            /\ cur.mean = Some(build_mean_data(Shared)))

\* the Aggregator is between mean and clear while a poll awaits the device
C10_Witness ==
    /\ cur.kind = "publish"
    /\ cur.pc = "clear"
    /\ lock = "publish"
    /\ polls_in_flight > 0
    /\ Len(log) = 2

(***************************************************************************)
(* C11: a refresh whose fetch fails (timeout, transport or HTTP error,     *)
(* malformed XML) leaves _async_update_data as a raised UpdateFailed: it   *)
(* is not swallowed, no snapshot is stored (on the first refresh there is  *)
(* still none), and buffer, flag and last sample are unchanged.            *)
(***************************************************************************)
C11_RefreshFailureRaised ==
    (Ended("refresh") /\ done[1].data = None) =>
        /\ done[1].raised
        /\ done[1].pubs = 0
        /\ done[1].msg \in {"timeout", "http_error", "xml_bad"}
        /\ \A resp \in Responses :
             resp.kind = done[1].msg =>
                 async_fetch_sample(resp).exc = "UpdateFailed"
        /\ Some(Visible) = done[1].pre
        /\ ~last_update_success

\* the first refresh of a coordinator times out: there is no snapshot
C11_Witness ==
    /\ Ended("refresh")
    /\ done[1].raised
    /\ done[1].msg = "timeout"
    /\ done[1].pre[1].data = None
    /\ data = None
    /\ log = <<>>

(***************************************************************************)
(* C12: async_setup_entry ends by returning True, and then the coordinator *)
(* has its poll interval and its publish interval, the first refresh has   *)
(* stored a snapshot, and the Poller and the Aggregator are both           *)
(* registered with the host.                                               *)
(***************************************************************************)
C12_SetupStartsBoth ==
    obs.ev = "setup" =>
        /\ entry.returned = "true"
        /\ entry.scan_interval \in {DEFAULT_SCAN_INTERVAL, 5}
        /\ data # None
        /\ unsub_scan # None /\ timers.scan = 1
        /\ unsub_storage # None /\ timers.storage = 1

(***************************************************************************)
(* C14: async_stop leaves both handles unset and no registration of this   *)
(* coordinator live, calling each cancel function whose handle was set;    *)
(* with both handles unset (a second stop, or a stop with nothing started) *)
(* it calls no cancel function and changes nothing.                        *)
(***************************************************************************)
C14_StopCancelsBothOnce ==
    [][obs'.ev = "stop" =>
         /\ unsub_scan' = None
         /\ unsub_storage' = None
         /\ timers' = NoTimers
         /\ ("cancel_scan" \in Range(obs'.calls)) = (unsub_scan # None)
         /\ ("cancel_storage" \in Range(obs'.calls)) = (unsub_storage # None)
         /\ Len(obs'.calls) <= 2
         /\ (unsub_scan = None /\ unsub_storage = None) =>
                /\ obs'.calls = <<>>
                /\ UNCHANGED <<lifeVars, Visible, lock, cur, log, run,
                               last_update_success, polls_in_flight,
                               refreshes_in_flight>>
      ]_vars

\* a started coordinator has just been stopped while a poll awaits its fetch
C14_Witness ==
    /\ obs.ev = "stop"
    /\ obs.calls = <<"cancel_scan", "cancel_storage">>
    /\ unsub_scan = None
    /\ unsub_storage = None
    /\ timers = NoTimers
    /\ polls_in_flight > 0

(***************************************************************************)
(* C15: once async_unload_entry has returned True, no registration of the  *)
(* coordinator is live and the host invokes neither _async_poll_device nor *)
(* _async_publish_means.                                                   *)
(***************************************************************************)
C15_NoCallbackAfterUnload ==
    [][(obs.ev = "unload" /\ entry.returned = "true") =>
         /\ timers = NoTimers
         /\ obs'.ev \notin {"poll_fetch", "publish_tick"}
      ]_vars

(***************************************************************************)
(* C13: once the first refresh has stored a snapshot, what consumers read  *)
(* as the coordinator's data is a mapping over the declared fields and     *)
(* never None again, whatever polls, failed polls, publishes, refreshes    *)
(* and no-sample failure signals follow.                                   *)
(***************************************************************************)
C13_SnapshotStaysDefined ==
    [][(Refreshed' \/ data # None) =>
         /\ data' # None
         /\ DOMAIN data'[1] \subseteq XML_FIELDS
      ]_vars

\* a snapshot is out and an Aggregator tick has just signalled no samples
C13_Witness ==
    /\ data # None
    /\ obs.notify = "update_error"
    /\ ~last_update_success
    /\ cur.kind = "publish"

(***************************************************************************)
(* C16: in periodic operation, an Aggregator tick that signalled no        *)
(* samples leaves nothing behind (empty buffer, no last sample, flag       *)
(* clear); the failure stays on record until the next publish; and the     *)
(* next Aggregator tick that ends after at least one successful poll       *)
(* publishes, with no other step needed, the aggregate of exactly the      *)
(* samples recorded since the failed tick.                                 *)
(***************************************************************************)
C16_RecoversWithoutRetry ==
    /\ []((Ended("publish") /\ done[1].errs = 1) =>
            (~last_update_success /\ log = <<>> /\ Shared = Cleared))
    /\ []((Published /\ ~done[1].ok0) =>
            /\ last_update_success
            /\ IsAggregate(data[1], done[1].log0)
            /\ From(done[1].log0, {"poll"}) = done[1].log0)
    /\ [][(last_update_success /\ ~last_update_success') =>
             obs'.notify = "update_error"]_vars
    /\ [][(~last_update_success /\ Ended("publish")'
             /\ From(done'[1].log0, {"poll"}) # <<>>) =>
             (Published' /\ last_update_success')]_vars

\* a snapshot was out, an interval failed, two polls succeeded and the next
\* tick has published
C16_Witness ==
    /\ Published
    /\ ~done[1].ok0
    /\ done[1].pre[1].data # None
    /\ Len(done[1].log0) = 2
    /\ data # done[1].pre[1].data

(***************************************************************************)
(* The parser's claims.                                                    *)
(***************************************************************************)
\* the document the last call parsed
ParsedDoc == parsed.xml[1]

\* a well-formed document has been parsed
ParsedXml == parsed.xml # None /\ ParsedDoc.kind = "xml"

\* the document has no element for key k, or one without text
MissingIn(doc, k) == ~doc.elems[k].present \/ doc.elems[k].text = None

OPTIONAL_PV_KEYS == {"v-pv3", "i-pv3", "v-pv4", "i-pv4"}

(***************************************************************************)
(* C17 (as stated): a missing-element warning comes at most once per field *)
(* for v-pv3, i-pv3, v-pv4 and i-pv4 only; for every other field, v-pv1,   *)
(* i-pv1, v-pv2 and i-pv2 included, every parse in which the element is    *)
(* missing warns.  The code remembers every key that starts with v-pv or   *)
(* i-pv, so the second parse without v-pv1 stays silent.                   *)
(***************************************************************************)
C17_WarnOnceOptionalOnly ==
    /\ [](ParsedXml =>
            \A k \in XML_FIELDS \ OPTIONAL_PV_KEYS :
                MissingIn(ParsedDoc, k) => k \in parsed.missing)
    /\ [][\A k \in OPTIONAL_PV_KEYS :
             k \in parsed'.missing => k \notin missing_pv_sensors]_vars

(***************************************************************************)
(* C17 (amended): a parse warns about a field exactly when its element is  *)
(* missing and, for the eight PV-string fields v-pv1 .. i-pv4, the         *)
(* coordinator has not warned about that field before: the coordinator's   *)
(* set of remembered fields grows by exactly the PV fields a parse warns   *)
(* about, so each of them is warned about at most once, and every other    *)
(* field on every parse in which it is missing.                            *)
(***************************************************************************)
C17_WarnOncePerPvField ==
    [][obs'.ev = "parse" =>
         IF parsed'.exc # "none"
         THEN /\ parsed'.missing = {}
              /\ missing_pv_sensors' = missing_pv_sensors
         ELSE /\ \A k \in XML_FIELDS :
                   (k \in parsed'.missing) =
                       (/\ MissingIn(parsed'.xml[1], k)
                        /\ k \in PV_KEYS => k \notin missing_pv_sensors)
              /\ missing_pv_sensors \subseteq missing_pv_sensors'
              /\ missing_pv_sensors' \ missing_pv_sensors
                     = parsed'.missing \cap PV_KEYS
      ]_vars

\* v-pv1 is missing again and the parse is silent about it, while a parse
\* of the same coordinator has warned about it before
C17_Witness ==
    /\ ParsedXml
    /\ MissingIn(ParsedDoc, "v-pv1")
    /\ "v-pv1" \in missing_pv_sensors
    /\ parsed.missing = {}

\* what the text t of the element of key k is to give: Some(value), or None
\* when the field is to be left out
Expected(k, t) ==
    LET plain == IF k = "state" THEN "str"
                 ELSE IF k \in UNIT_KEYS THEN "unit" ELSE "float"
    IN  CASE t = TNormal ->
                 IF plain = "str" THEN Some(Str(TNormal)) ELSE None
          [] t = T230 ->
                 IF plain = "str" THEN Some(Str(T230)) ELSE Some(Float(2300))
          [] t = T231 ->
                 IF plain = "str" THEN Some(Str(T231)) ELSE Some(Float(2314))
          [] t = T231V ->
                 CASE plain = "str" -> Some(Str(T231V))
                   [] plain = "unit" -> Some(Float(2314))
                   [] OTHER -> None
          [] t = TPadded ->
                 IF plain = "str" THEN Some(Str(<<"8", ".", "2", "5">>))
                 ELSE Some(Num(165, 2))
          [] t = TBlank -> IF plain = "str" THEN Some(Str(<<>>)) ELSE None
          [] t = TNA -> IF plain = "str" THEN Some(Str(TNA)) ELSE None
          [] OTHER -> IF plain = "str" THEN Some(Str(TUnitFirst)) ELSE None

(***************************************************************************)
(* C18: the parse of a well-formed document raises nothing; a field is in  *)
(* the result exactly when its element is present with a text that         *)
(* converts, with the converted value, and is left out otherwise, whatever *)
(* the other fields are; the result's keys are declared fields.            *)
(***************************************************************************)
C18_FieldFailuresOmitted ==
    ParsedXml =>
        /\ parsed.exc = "none"
        /\ DOMAIN parsed.result \subseteq XML_FIELDS
        /\ \A k \in XML_FIELDS :
             LET el == ParsedDoc.elems[k]
             IN  IF MissingIn(ParsedDoc, k) \/ Expected(k, el.text[1]) = None
                 THEN k \notin DOMAIN parsed.result
                 ELSE /\ k \in DOMAIN parsed.result
                      /\ parsed.result[k] = Expected(k, el.text[1])[1]
        /\ parsed.failed =
               {k \in XML_FIELDS :
                   ~MissingIn(ParsedDoc, k) /\ k \notin DOMAIN parsed.result}

\* a blank i-pv2 (no token to take) is left out, the other nineteen fields
\* are returned
C18_Witness ==
    /\ ParsedXml
    /\ ParsedDoc.elems["i-pv2"] = Text(TBlank)
    /\ parsed.exc = "none"
    /\ parsed.failed = {"i-pv2"}
    /\ DOMAIN parsed.result = XML_FIELDS \ {"i-pv2"}

\* the first whitespace-delimited token of a text, if it has one
FirstToken(t) ==
    LET inked == {i \in 1..Len(t) : t[i] \notin Whitespace}
    IN  IF inked = {} THEN None
        ELSE LET a == CHOOSE i \in inked : \A j \in inked : i <= j
                 b == CHOOSE i \in inked :
                          /\ \A j \in a..i : j \in inked
                          /\ (i + 1) \notin inked
             IN  Some(SubSeq(t, a, b))

(***************************************************************************)
(* C19: for v-pv2, i-pv2, v-pv3, i-pv3, v-pv4 and i-pv4 the parsed value   *)
(* is the float of the first whitespace-delimited token of the element's   *)
(* text, and the field is left out when there is no token or the token is  *)
(* no number; what follows the first token changes nothing: "231.4 V"      *)
(* gives 231.4, as "231.4" does.                                           *)
(***************************************************************************)
C19_FirstTokenOfUnitFields ==
    ParsedXml =>
        \A k \in UNIT_KEYS :
            ~MissingIn(ParsedDoc, k) =>
                LET t == ParsedDoc.elems[k].text[1]
                    tok == FirstToken(t)
                IN  /\ IF tok # None /\ float_text(tok[1]).exc = "none"
                       THEN /\ k \in DOMAIN parsed.result
                            /\ parsed.result[k] = float_text(tok[1]).value
                       ELSE k \notin DOMAIN parsed.result
                    /\ t \in {T231, T231V} =>
                           DictGet(parsed.result, k) = Float(2314)

\* "231.4 V" as the text of i-pv4 has given 231.4
C19_Witness ==
    /\ ParsedXml
    /\ ParsedDoc.elems["i-pv4"] = Text(T231V)
    /\ "i-pv4" \in DOMAIN parsed.result
    /\ parsed.result["i-pv4"] = Float(2314)
    /\ parsed.result["v-pv2"] = Float(2300)

(***************************************************************************)
(* C20: a read of native_value of e-today or t-today that finds no reset   *)
(* date (the first read ever) or a reset date other than today (the first  *)
(* read since the date changed) returns 0.0 and records today as the reset *)
(* date, whatever the coordinator's data and last_update_success are.      *)
(***************************************************************************)
C20_DailyResetOnFirstRead ==
    (obs.ev = "read" /\ sensor.key \in DAILY_KEYS
        /\ native[1].found # Some(today)) =>
        /\ native[1].value = Float(0)
        /\ sensor.last_reset_date = Some(today)

\* e-today was reset on day 0; the first read of day 1 comes while the last
\* update has failed and the snapshot holds 10.0: it returns 0.0
C20_Witness ==
    /\ obs.ev = "read"
    /\ sensor.key = "e-today"
    /\ today = 1
    /\ native[1].found = Some(0)
    /\ native[1].value = Float(0)
    /\ sensor.last_reset_date = Some(1)
    /\ ~last_update_success
    /\ data[1]["e-today"] = Float(100)

(***************************************************************************)
(* C21: once the first read of the day has reset e-today or t-today, every *)
(* further read of native_value on that day returns 0.0 as well, also      *)
(* when the last update succeeded and the snapshot holds a non-zero value. *)
(***************************************************************************)
C21_DailyStaysZeroAllDay ==
    (obs.ev = "read" /\ sensor.key \in DAILY_KEYS
        /\ native[1].found = Some(today)) =>
        native[1].value = Float(0)

(***************************************************************************)
(* C22: while the last update has failed, a read of native_value of        *)
(* e-today or t-today returns 0.0, whatever the sensor returned before.    *)
(***************************************************************************)
C22_DailyZeroWhenUnavailable ==
    (obs.ev = "read" /\ sensor.key \in DAILY_KEYS /\ ~last_update_success) =>
        native[1].value = Float(0)

(***************************************************************************)
(* C23: a step of the setup flow whose reachability check ended in a       *)
(* timeout or a client error creates or updates no entry and shows its     *)
(* form again with the error "cannot_connect"; an entry is created or      *)
(* updated only by a step whose reachability check succeeded.              *)
(***************************************************************************)
C23_AcceptsOnlyReachableHost ==
    [][ obs'.ev \in {"step_user", "step_reconfigure"} =>
          /\ flow'.validate \in {"timeout", "client_error"} =>
                /\ config_entry' = config_entry
                /\ flow'.result.type = "form"
                /\ flow'.result.step_id =
                      (IF obs'.ev = "step_user" THEN "user"
                       ELSE "reconfigure")
                /\ flow'.result.errors = {<<"base", "cannot_connect">>}
          /\ flow'.result.type \in {"create_entry", "abort"} =>
                flow'.validate = "ok"
          /\ config_entry' # config_entry =>
                flow'.result.type \in {"create_entry", "abort"}
      ]_vars

\* a reconfigure of an existing entry was handed a host that answers with a
\* client error: the form is back with cannot_connect, the entry is as the
\* user step made it
C23_Witness ==
    /\ obs.ev = "step_reconfigure"
    /\ flow.validate = "client_error"
    /\ flow.input # None
    /\ flow.input[1].host = "192.168.1.11"
    /\ flow.result.type = "form"
    /\ flow.result.errors = {<<"base", "cannot_connect">>}
    /\ config_entry # None
    /\ config_entry[1].host = "192.168.1.10"

\* the aggregate a callback has just built, and the last raw sample recorded
JustBuilt == obs.ev \in {"publish_build", "refresh_build"} /\ log # <<>>
LastRecorded == log[Len(log)].sample

(***************************************************************************)
(* C24 as stated: the key set of every aggregate built equals the key set  *)
(* of the last raw sample of the interval.                                 *)
(***************************************************************************)
C24_KeysOfLastSample ==
    JustBuilt => DOMAIN cur.mean[1] = DOMAIN LastRecorded

(***************************************************************************)
(* C24: the key set of every aggregate built is the key set of the last    *)
(* raw sample of the interval together with every averaged key for which   *)
(* some sample of the interval carried a number; such a key holds the mean *)
(* also when the last raw sample lacks it.                                 *)
(***************************************************************************)
C24_KeysOfLastSampleAndBuffer ==
    JustBuilt =>
        /\ DOMAIN cur.mean[1] =
              DOMAIN LastRecorded
                \cup {k \in AVERAGE_KEYS : Carried(log, k) # <<>>}
        /\ \A k \in AVERAGE_KEYS \ DOMAIN LastRecorded :
              Carried(log, k) # <<>> =>
                  IsMean(cur.mean[1][k], Carried(log, k))

\* the last sample of the interval has no v-pv1, an earlier one had: the
\* aggregate holds v-pv1
C24_Witness ==
    /\ obs.ev = "publish_build"
    /\ Len(log) = 2
    /\ "v-pv1" \in DOMAIN log[1].sample
    /\ "v-pv1" \notin DOMAIN LastRecorded
    /\ "v-pv1" \in DOMAIN cur.mean[1]
    /\ cur.mean[1]["v-pv1"] = log[1].sample["v-pv1"]

\* float(d[k]) gives a number: the key is there and holds a number or a
\* text that reads as one
Convertible(d, k) ==
    /\ k \in DOMAIN d
    /\ \/ d[k].t = "num"
       \/ d[k].t = "str" /\ d[k].s \in DOMAIN NumericText

(***************************************************************************)
(* C25: _add_sample(d) appends exactly one value, float(d[k]), to the      *)
(* buffer sequence of every averaged key k that d holds with a             *)
(* numeric-convertible value, leaves every other sequence as it was, keeps *)
(* the buffer's keys to the averaged keys, and in every case sets          *)
(* has-sample and makes d the last sample.                                 *)
(***************************************************************************)
C25_AddSampleAppendsNumeric ==
    [][ obs'.ev = "add_sample" =>
          LET d == log'[Len(log')].sample IN
          /\ DOMAIN buffer' = AVERAGE_KEYS
          /\ \A k \in AVERAGE_KEYS :
                IF Convertible(d, k)
                THEN /\ Len(buffer'[k]) = Len(buffer[k]) + 1
                     /\ SubSeq(buffer'[k], 1, Len(buffer[k])) = buffer[k]
                     /\ buffer'[k][Len(buffer'[k])] =
                           (IF d[k].t = "num" THEN d[k].n
                            ELSE NumericText[d[k].s])
                ELSE buffer'[k] = buffer[k]
          /\ interval_has_sample'
          /\ interval_last_sample' = Some(d)
      ]_vars

\* a sample with no averaged key at all was recorded after one with v-pv1
\* as text "149.0": nothing was appended for it, it is the last sample
C25_Witness ==
    /\ obs.ev = "add_sample"
    /\ Len(log) = 2
    /\ DictGet(log[1].sample, "v-pv1") = Str("149.0")
    /\ DOMAIN log[2].sample = {"state", "e-today"}
    /\ buffer["v-pv1"] = <<1490>>
    /\ buffer["v-grid"] = <<log[1].sample["v-grid"].n>>
    /\ interval_has_sample
    /\ interval_last_sample = Some(log[2].sample)

(***************************************************************************)
(* C26: no callback blocks on the lock for ever.  The lock is held only by *)
(* the callback that is running, no fetch is begun or awaited while it is  *)
(* held, a callback that comes to its acquisition finds the lock free,     *)
(* and under fair scheduling every callback that is running comes to its   *)
(* return with the lock free again (the no-sample return of the publish    *)
(* included).                                                              *)
(***************************************************************************)
C26_LockAlwaysReleased ==
    /\ [](lock # "free" => lock = cur.kind)
    /\ [][lock # "free" =>
            UNCHANGED <<polls_in_flight, refreshes_in_flight>>]_vars
    /\ [](cur.pc = "acquire" => lock = "free")
    /\ (cur.kind # "none") ~> (cur.kind = "none" /\ lock = "free")

\* the publish has left through its no-sample return and the lock is free
\* again, with fetches of other callbacks on their way
C26_Witness ==
    /\ obs.ev = "publish_return"
    /\ done # None
    /\ done[1].kind = "publish"
    /\ lock = "free"
    /\ polls_in_flight > 0
    /\ refreshes_in_flight > 0

BlankText(t) == \A i \in 1..Len(t) : t[i] \in Whitespace

(***************************************************************************)
(* C28: after the parse of a well-formed document, every declared field    *)
(* whose element is missing, or whose text is empty or whitespace only, is *)
(* absent from the result, the string-typed state field included.          *)
(***************************************************************************)
C28_BlankFieldsAbsent ==
    ParsedXml =>
        \A k \in XML_FIELDS :
            (MissingIn(ParsedDoc, k)
                \/ BlankText(ParsedDoc.elems[k].text[1])) =>
                k \notin DOMAIN parsed.result

\* the cumulative sensors
CUMULATIVE_KEYS == {"e-total", "t-total", "CO2"}

(***************************************************************************)
(* C29: a read of native_value of a non-daily sensor while the last update *)
(* has failed returns None for state, the sensor's remembered last value   *)
(* (0.0 if it has none) for e-total, t-total and CO2, and 0.0 for every    *)
(* other sensor, and leaves the remembered value as it was.  The           *)
(* remembered value is the last value the sensor returned while the last   *)
(* update had succeeded: such a read that returns a value remembers it,    *)
(* and nothing but a read touches the sensor.                              *)
(***************************************************************************)
C29_UnavailableValues ==
    [][ /\ obs'.ev # "read" => sensor' = sensor
        /\ (obs'.ev = "read" /\ sensor.key \notin DAILY_KEYS) =>
              IF ~last_update_success
              THEN /\ sensor' = sensor
                   /\ native'[1].value =
                        (IF sensor.key = "state" THEN PyNone
                         ELSE IF sensor.key \in CUMULATIVE_KEYS
                              THEN (IF sensor.last_value = None THEN Float(0)
                                    ELSE sensor.last_value[1])
                              ELSE Float(0))
              ELSE IF native'[1].value = PyNone
                   THEN sensor' = sensor
                   ELSE sensor'.last_value = Some(native'[1].value)
      ]_vars

\* the CO2 sensor showed 980.0, the coordinator then stored a snapshot with
\* 980.1 that was never read and failed after it: the read gives 980.0
C29_Witness ==
    /\ obs.ev = "read"
    /\ sensor.key = "CO2"
    /\ ~last_update_success
    /\ data[1]["CO2"] = Float(98010)
    /\ sensor.last_value # None
    /\ sensor.last_value[1] # Float(98010)
    /\ sensor.last_value[1] # Float(0)
    /\ native[1].value = sensor.last_value[1]

\* agg counts every sample of lg once: each averaged field some sample of
\* lg carried is the mean over exactly the values carried
AggregateOver(agg, lg) ==
    \A k \in AVERAGE_KEYS :
        Carried(lg, k) # <<>> =>
            /\ k \in DOMAIN agg
            /\ IsMean(agg[k], Carried(lg, k))

(***************************************************************************)
(* C30: with Poller and Aggregator ticks interleaved in any way, a sample  *)
(* recorded by a poll stays recorded until an Aggregator tick clears it,   *)
(* the first Aggregator tick to take the lock after it was recorded does   *)
(* not skip it, that tick's aggregate counts each recorded sample once and *)
(* is the snapshot the tick publishes, and the clear leaves nothing        *)
(* behind for a later aggregate.                                           *)
(***************************************************************************)
C30_EachSampleInOnePublish ==
    [][ /\ log' # log =>
              \/ /\ obs'.ev = "poll_add"
                 /\ lock = "poll"
                 /\ Len(log') = Len(log) + 1
                 /\ SubSeq(log', 1, Len(log)) = log
              \/ /\ obs'.ev = "publish_clear"
                 /\ log' = <<>>
        /\ obs'.ev = "publish_no_sample" => log = <<>>
        /\ obs'.ev = "publish_build" =>
              /\ log # <<>>
              /\ AggregateOver(cur'.mean[1], log)
        /\ obs'.ev = "publish_clear" =>
              /\ log' = <<>>
              /\ \A k \in AVERAGE_KEYS : buffer'[k] = <<>>
        /\ (cur.kind = "publish" /\ cur.mean # None /\ cur'.kind = "publish")
              => cur'.mean = cur.mean
        /\ obs'.ev = "publish_set" => data' = cur.mean
      ]_vars

\* two polls were recorded, a third was on its way while the Aggregator
\* published their mean and cleared them
C30_Witness ==
    /\ Published
    /\ Len(done[1].log0) = 2
    /\ done[1].log0[1].sample # done[1].log0[2].sample
    /\ log = <<>>
    /\ polls_in_flight > 0
    /\ data = done[1].mean
    /\ AggregateOver(data[1], done[1].log0)

(***************************************************************************)
(* C31: in every reachable state with the lock free, the has-sample flag   *)
(* is set exactly when the last-sample cache holds a sample, every buffer  *)
(* sequence is empty when the flag is not set, the buffer's keys are       *)
(* exactly AVERAGE_KEYS, and no buffer sequence is longer than the number  *)
(* of samples recorded since the last clear.                               *)
(***************************************************************************)
C31_BufferShape ==
    lock = "free" =>
        /\ interval_has_sample = (interval_last_sample # None)
        /\ ~interval_has_sample => \A k \in DOMAIN buffer : buffer[k] = <<>>
        /\ DOMAIN buffer = AVERAGE_KEYS
        /\ \A k \in DOMAIN buffer : Len(buffer[k]) <= Len(log)

\* two samples are recorded, the second without v-pv1: that sequence holds
\* one value, the others two
C31_Witness ==
    /\ lock = "free"
    /\ cur.kind = "none"
    /\ interval_has_sample
    /\ interval_last_sample # None
    /\ Len(log) = 2
    /\ Len(buffer["v-pv1"]) = 1
    /\ Len(buffer["v-grid"]) = 2
    /\ Len(buffer["v-pv4"]) = 0

(***************************************************************************)
(* C32: whatever async_start and async_stop calls were made, the scan and  *)
(* the storage handle are both set or both unset, each timer has one live  *)
(* registration when its handle is set and none otherwise, and a call of   *)
(* async_start leaves both registered, having registered both (nothing     *)
(* was started) or nothing (it was started already).                       *)
(***************************************************************************)
C32_RegistrationsPaired ==
    /\ (unsub_scan # None) = (unsub_storage # None)
    /\ timers.scan = (IF unsub_scan # None THEN 1 ELSE 0)
    /\ timers.storage = (IF unsub_storage # None THEN 1 ELSE 0)
    /\ obs.ev = "start" =>
          /\ unsub_scan # None
          /\ unsub_storage # None
          /\ obs.calls \in {<<>>, <<"track_scan", "track_storage">>}

\* a poll of an earlier start is still awaiting its fetch; the coordinator
\* was stopped since and this async_start has registered both again
C32_Witness ==
    /\ obs.ev = "start"
    /\ obs.calls = <<"track_scan", "track_storage">>
    /\ polls_in_flight > 0
    /\ timers = [scan |-> 1, storage |-> 1]
    /\ unsub_scan # None
    /\ unsub_storage # None

====
